---- MODULE Spec2Model ----
(***************************************************************************)
(* A model of the lyth compiler front end: Scanner -> Lexer -> Parser ->   *)
(* Analyzer, with the symbol table kept in an ordered binary tree.         *)
(*                                                                         *)
(* Every stage of the program is a Python generator.  A generator is       *)
(* modelled by its local state plus the yield point it is suspended at     *)
(* (the pc fields); one pull of a stage (next(...)) is one operator that   *)
(* runs the generator body from that yield point to the next yield, raise  *)
(* or return.                                                              *)
(*                                                                         *)
(* Characters are one-character strings, source text and lexemes are       *)
(* sequences of characters.                                                *)
(***************************************************************************)
EXTENDS Integers, Sequences, FiniteSets, TLC

VARIABLES
    scanner,    \* the Scanner object: data, index, lineno, offset, generator pc
    lexer,      \* the Lexer generator: token under construction, pc, char
    parser,     \* the Parser object: indent, saved token, generator pc
    analyzer,   \* the Analyzer object: scope, generator pc
    table,      \* the Analyzer's symbol table (tree of Name nodes)
    roots,      \* Name.roots: the root nodes that Name.root has registered
    visited,    \* the AST node the last pull of the analyzer handed to visit
    emitted,    \* what the pulled stage has delivered so far, in order
    outcome,    \* how the last pull ended: "none", "item", "stop", "error"
    error,      \* the exception raised by the last failing pull
    input,      \* the construction of the source text (for stating claims)
    count,      \* the driver's count of the sources it has read
    mode        \* which stage the driver pulls

vars ==
    <<scanner, lexer, parser, analyzer, table, roots, visited, emitted,
      outcome, error, input, count, mode>>

----------------------------------------------------------------------------
(* Generic helpers                                                          *)

Last(s) == s[Len(s)]

Range(s) == {s[i] : i \in DOMAIN s}

----------------------------------------------------------------------------
(* Character classes: str.isspace, str.isdigit, str.isalpha, str.isalnum   *)

Digits == {"0", "1", "2", "3", "4", "5", "6", "7", "8", "9"}

Letters == {"a", "b", "c", "d", "e", "f", "g", "h", "i", "j", "k", "l", "m",
            "n", "o", "p", "q", "r", "s", "t", "u", "v", "w", "x", "y", "z",
            "A", "B", "C", "D", "E", "F", "G", "H", "I", "J", "K", "L", "M",
            "N", "O", "P", "Q", "R", "S", "T", "U", "V", "W", "X", "Y", "Z"}

IsSpace(c) == c \in {" ", "\n", "\t", "\r"}

IsDigit(c) == c \in Digits

IsAlpha(c) == c \in Letters

IsAlnum(c) == IsDigit(c) \/ IsAlpha(c)

DigitVal(c) ==
    CASE c = "0" -> 0 [] c = "1" -> 1 [] c = "2" -> 2 [] c = "3" -> 3
      [] c = "4" -> 4 [] c = "5" -> 5 [] c = "6" -> 6 [] c = "7" -> 7
      [] c = "8" -> 8 [] c = "9" -> 9

\* int(lexeme) for a string of decimal digits
RECURSIVE StrToInt(_)
StrToInt(s) ==
    IF s = <<>> THEN 0
    ELSE 10 * StrToInt(SubSeq(s, 1, Len(s) - 1)) + DigitVal(s[Len(s)])

----------------------------------------------------------------------------
(* scanner.py                                                               *)

END == "<END>"      \* StopIteration out of the scanner

\* Scanner.__init__
ScannerInit(data) ==
    [data |-> data, index |-> 0, lineno |-> 0, offset |-> -1, pc |-> "run"]

\* The methods of the Scanner, the Token and the Lexer call one another
\* through Lex, which selects the method by its name and hands it the tuple
\* of its arguments.
RECURSIVE Lex(_, _)

\* The while loop of Scanner.next, entered at its top.
ScanLoop(s) ==
    IF s.index >= Len(s.data)
    THEN \* IndexError: flush the source, leave the generator
         [s |-> [s EXCEPT !.data = <<>>, !.pc = "done"], c |-> END]
    ELSE LET char == s.data[s.index + 1]
             s1 == [s EXCEPT !.index = @ + 1]
         IN  IF char = "\r" THEN Lex("ScanLoop", <<s1>>)
             ELSE IF char = "\n"
                  THEN [s |-> [s1 EXCEPT !.pc = "nl"], c |-> char]
             ELSE IF char = "\t"
                  THEN [s |-> [s1 EXCEPT !.offset = @ + 1, !.pc = "tab1"], c |-> " "]
             ELSE [s |-> [s1 EXCEPT !.offset = @ + 1, !.pc = "run"], c |-> char]

\* One next(scanner): resume Scanner.next where it was suspended.
ScanNext(s) ==
    CASE s.pc = "done" -> [s |-> s, c |-> END]
      [] s.pc = "nl"   -> Lex("ScanLoop", <<[s EXCEPT !.lineno = @ + 1, !.offset = -1, !.pc = "run"]>>)
      [] s.pc = "tab1" -> [s |-> [s EXCEPT !.pc = "run"], c |-> " "]
      [] OTHER         -> Lex("ScanLoop", <<s>>)

----------------------------------------------------------------------------
(* token.py                                                                 *)

\* Symbol.as_value: the symbol whose value is the given lexeme, or "NONE"
SymbolAsValue(lex) ==
    CASE lex = <<"+">> -> "ADD"
      [] lex = <<"&">> -> "AND"
      [] lex = <<"'">> -> "CHAR"
      [] lex = <<":">> -> "COLON"
      [] lex = <<",">> -> "COMMA"
      [] lex = <<"#">> -> "COMMENT"
      [] lex = <<"-", "-">> -> "DEC"
      [] lex = <<"!", "=">> -> "DIFF"
      [] lex = <<"/">> -> "DIV"
      [] lex = <<"\"", "\"", "\"">> -> "DOC"
      [] lex = <<".">> -> "DOT"
      [] lex = <<"\n">> -> "EOL"
      [] lex = <<"=">> -> "EQ"
      [] lex = <<"!">> -> "FLIP"
      [] lex = <<"/", "/">> -> "FLOOR"
      [] lex = <<">">> -> "GT"
      [] lex = <<">", "=">> -> "GTE"
      [] lex = <<"+", "+">> -> "INC"
      [] lex = <<" ">> -> "INDENT"
      [] lex = <<"%">> -> "MOD"
      [] lex = <<"*">> -> "MUL"
      [] lex = <<"<", "-">> -> "LASSIGN"
      [] lex = <<"(">> -> "LPAREN"
      [] lex = <<"<", "<">> -> "LSHIFT"
      [] lex = <<"<">> -> "LT"
      [] lex = <<"<", "=">> -> "LTE"
      [] lex = <<"|">> -> "OR"
      [] lex = <<"\"">> -> "QUOTE"
      [] lex = <<".", ".">> -> "RANGE"
      [] lex = <<"-", ">">> -> "RASSIGN"
      [] lex = <<")">> -> "RPAREN"
      [] lex = <<">", ">">> -> "RSHIFT"
      [] lex = <<"-">> -> "SUB"
      [] lex = <<"?">> -> "UNKNOWN"
      [] lex = <<"^">> -> "XOR"
      [] OTHER -> "NONE"

Symbols == {"ADD", "AND", "CHAR", "COLON", "COMMA", "COMMENT", "DEC", "DIFF",
            "DIV", "DOC", "DOT", "EOF", "EOL", "EQ", "FLIP", "FLOOR", "GT",
            "GTE", "INC", "INDENT", "MOD", "MUL", "LASSIGN", "LPAREN",
            "LSHIFT", "LT", "LTE", "OR", "QUOTE", "RANGE", "RASSIGN",
            "RPAREN", "RSHIFT", "SUB", "UNKNOWN", "XOR"}

\* Keyword.as_value; keyword kinds are written "kw_<NAME>" to keep them
\* apart from the symbols AND and OR.
KeywordAsValue(lex) ==
    CASE lex = <<"a", "t">> -> "kw_AT"
      [] lex = <<"b", "e">> -> "kw_BE"
      [] lex = <<"a", "n", "d">> -> "kw_AND"
      [] lex = <<"f", "a", "l", "s", "e">> -> "kw_FALSE"
      [] lex = <<"f", "o", "r">> -> "kw_FOR"
      [] lex = <<"f", "r", "o", "m">> -> "kw_FROM"
      [] lex = <<"i", "f">> -> "kw_IF"
      [] lex = <<"i", "m", "p", "o", "r", "t">> -> "kw_IMPORT"
      [] lex = <<"i", "n">> -> "kw_IN"
      [] lex = <<"i", "s">> -> "kw_IS"
      [] lex = <<"l", "e", "t">> -> "kw_LET"
      [] lex = <<"n", "o", "n", "e">> -> "kw_NONE"
      [] lex = <<"n", "o", "t">> -> "kw_NOT"
      [] lex = <<"o", "f">> -> "kw_OF"
      [] lex = <<"o", "r">> -> "kw_OR"
      [] lex = <<"t", "r", "u", "e">> -> "kw_TRUE"
      [] lex = <<"w", "i", "t", "h">> -> "kw_WITH"
      [] OTHER -> "NONE"

Keywords == {"kw_AT", "kw_BE", "kw_AND", "kw_FALSE", "kw_FOR", "kw_FROM",
             "kw_IF", "kw_IMPORT", "kw_IN", "kw_IS", "kw_LET", "kw_NONE",
             "kw_NOT", "kw_OF", "kw_OR", "kw_TRUE", "kw_WITH"}

Literals == {"STRING", "VALUE"}

\* Python's None where a Token is expected
NoToken ==
    [symbol |-> "NONE", lexeme |-> <<>>, num |-> -1,
     lineno |-> -1, offset |-> -1, quotes |-> 0]

\* A raised exception: its class, its LythError member and its origin
Exc(cls, msg, lineno, offset) ==
    [cls |-> cls, msg |-> msg, lineno |-> lineno, offset |-> offset]

NoError == Exc("none", "OK", -1, -1)

SyntaxErr(msg, lineno, offset) == Exc("LythSyntaxError", msg, lineno, offset)

\* The members of the LythError enumeration (error.py)
LythErrors ==
    {"OK", "GARBAGE_CHARACTERS", "INCOMPLETE_LINE", "INVALID_CHARACTER",
     "LEFT_MEMBER_IS_EXPRESSION", "LET_ON_EXPRESSION", "LITERAL_EXPECTED",
     "MISSING_EMPTY_LINE", "MISSING_SPACE_BEFORE_OPERATOR",
     "MISSING_SPACE_AFTER_OPERATOR", "NAME_EXPECTED", "REASSIGN_IMMUTABLE",
     "SYNTAX_ERROR", "UNEVEN_INDENT", "VARIABLE_REFERENCED_BEFORE_ASSIGNMENT"}

\* Evaluating LythError.<member> for a name the enumeration does not define
\* raises AttributeError before any LythSyntaxError is built.
NoMember(member) == Exc("AttributeError", member, -1, -1)

\* Token.__init__ on a one-character lexeme; ok = FALSE is INVALID_CHARACTER
TokenInit(c, scan) ==
    LET sym == SymbolAsValue(<<c>>)
        kind == IF sym # "NONE" THEN sym
                ELSE IF IsDigit(c) THEN "VALUE"
                ELSE IF IsAlpha(c) \/ c = "_" THEN "STRING"
                ELSE "NONE"
    IN  [ok  |-> kind # "NONE",
         tok |-> [symbol |-> kind, lexeme |-> <<c>>, num |-> -1,
                  lineno |-> scan.lineno, offset |-> scan.offset,
                  quotes |-> IF kind = "QUOTE" THEN 1 ELSE 0],
         err |-> SyntaxErr("INVALID_CHARACTER", scan.lineno, scan.offset)]

\* Token(None, scanner): the end of file token
TokenEOF(scan) ==
    [symbol |-> "EOF", lexeme |-> <<>>, num |-> -1,
     lineno |-> scan.lineno, offset |-> scan.offset, quotes |-> 0]

\* Token.__call__: finalize the token
TokenCall(t) ==
    IF t.symbol = "VALUE"
    THEN [ok |-> TRUE, tok |-> [t EXCEPT !.num = StrToInt(t.lexeme)], err |-> NoError]
    ELSE IF t.symbol = "INDENT"
    THEN IF Len(t.lexeme) % 2 = 1
         THEN [ok |-> FALSE, tok |-> t,
               err |-> SyntaxErr("UNEVEN_INDENT", t.lineno, t.offset)]
         ELSE [ok |-> TRUE, tok |-> [t EXCEPT !.num = Len(t.lexeme) \div 2],
               err |-> NoError]
    ELSE [ok |-> TRUE, tok |-> t, err |-> NoError]

\* an extension that leaves a keyword a keyword when a letter, a digit or
\* '_' is appended to it
TokenAddSticky(t, c) ==
    LET joined == SymbolAsValue(t.lexeme \o <<c>>)
        single == SymbolAsValue(<<c>>)
        fail(msg) == [ok |-> FALSE, tok |-> t,
                      err |-> SyntaxErr(msg, t.lineno, t.offset)]
        good(u) == [ok |-> TRUE, tok |-> u, err |-> NoError]
    IN  IF t.symbol = "INDENT" /\ c = " "
        THEN good([t EXCEPT !.lexeme = @ \o <<c>>])
        ELSE IF joined # "NONE"
        THEN good([t EXCEPT !.symbol = joined, !.lexeme = @ \o <<c>>])
        ELSE IF single # "NONE" /\ t.symbol \in Literals
        THEN fail("MISSING_SPACE_BEFORE_OPERATOR")
        ELSE IF IsDigit(c) /\ t.symbol \in Literals
        THEN good([t EXCEPT !.lexeme = @ \o <<c>>])
        ELSE IF (IsAlnum(c) \/ c = "_") /\ t.symbol = "STRING"
        THEN LET lex == t.lexeme \o <<c>>
                 kw == KeywordAsValue(lex)
             IN  good([t EXCEPT !.lexeme = lex,
                                !.symbol = IF kw # "NONE" THEN kw ELSE @])
        ELSE IF (IsAlnum(c) \/ c = "_") /\ t.symbol \in Keywords
        THEN good([t EXCEPT !.lexeme = @ \o <<c>>])
        ELSE IF (IsAlnum(c) \/ c = "_") /\ t.symbol \in Symbols
        THEN fail("MISSING_SPACE_AFTER_OPERATOR")
        ELSE IF c = "\"" /\ t.symbol = "QUOTE"
        THEN good([t EXCEPT !.quotes = @ + 1])
        ELSE fail("SYNTAX_ERROR")

\* Token.__add__ (tokens built by the lexer never have force_literal set)
TokenAdd(t, c) ==
    LET joined == SymbolAsValue(t.lexeme \o <<c>>)
        single == SymbolAsValue(<<c>>)
        fail(msg) == [ok |-> FALSE, tok |-> t,
                      err |-> SyntaxErr(msg, t.lineno, t.offset)]
        good(u) == [ok |-> TRUE, tok |-> u, err |-> NoError]
    IN  IF t.symbol = "INDENT" /\ c = " "
        THEN good([t EXCEPT !.lexeme = @ \o <<c>>])
        ELSE IF joined # "NONE"
        THEN good([t EXCEPT !.symbol = joined, !.lexeme = @ \o <<c>>])
        ELSE IF single # "NONE" /\ t.symbol \in Literals
        THEN fail("MISSING_SPACE_BEFORE_OPERATOR")
        ELSE IF IsDigit(c) /\ t.symbol \in Literals
        THEN good([t EXCEPT !.lexeme = @ \o <<c>>])
        ELSE IF (IsAlnum(c) \/ c = "_") /\ t.symbol = "STRING"
        THEN LET lex == t.lexeme \o <<c>>
                 kw == KeywordAsValue(lex)
             IN  good([t EXCEPT !.lexeme = lex,
                                !.symbol = IF kw # "NONE" THEN kw ELSE @])
        ELSE IF (IsAlnum(c) \/ c = "_") /\ t.symbol \in Keywords
        THEN good([t EXCEPT !.lexeme = @ \o <<c>>, !.symbol = "STRING"])
        ELSE IF (IsAlnum(c) \/ c = "_") /\ t.symbol \in Symbols
        THEN fail("MISSING_SPACE_AFTER_OPERATOR")
        ELSE IF c = "\"" /\ t.symbol = "QUOTE"
        THEN good([t EXCEPT !.quotes = @ + 1])
        ELSE fail("SYNTAX_ERROR")

----------------------------------------------------------------------------
(* lexer.py                                                                 *)

\* Lexer.__init__: the generator has not started, no token is being built
LexerInit == [tok |-> NoToken, pc |-> "loop", ch |-> "", newtok |-> NoToken]

\* What one next(lexer) delivers, with the lexer and scanner it leaves behind
LexYield(tok, pc, ch, newtok, held, scan) ==
    [lexer |-> [tok |-> held, pc |-> pc, ch |-> ch, newtok |-> newtok],
     scanner |-> scan, kind |-> "tok", tok |-> tok, err |-> NoError]

\* an exception leaves the generator: it is finished
LexRaise(err, held, scan) ==
    [lexer |-> [tok |-> held, pc |-> "done", ch |-> "", newtok |-> NoToken],
     scanner |-> scan, kind |-> "err", tok |-> NoToken, err |-> err]

LexStop(lex, scan) ==
    [lexer |-> [lex EXCEPT !.pc = "done"],
     scanner |-> scan, kind |-> "stop", tok |-> NoToken, err |-> NoError]

\* a recovery that takes every missing space for a token boundary
LexRecoverAlways(err, tok, c, scan) ==
    IF err.msg = "MISSING_SPACE_AFTER_OPERATOR"
    THEN LexYield(Lex("TokenCall", <<tok>>).tok, "yr1", c, NoToken, tok, scan)
    ELSE IF err.msg = "MISSING_SPACE_BEFORE_OPERATOR"
    THEN LexYield(Lex("TokenCall", <<tok>>).tok, "yr2", c,
                  Lex("TokenInit", <<c, scan>>).tok, tok, scan)
    ELSE LexRaise(err, tok, scan)

\* The except LythSyntaxError clause of Lexer.next, for an error raised by
\* "token += char".
LexRecover(err, tok, c, scan) ==
    IF err.msg = "MISSING_SPACE_AFTER_OPERATOR"
    THEN IF tok.symbol \in {"ADD", "SUB", "LPAREN"}
         THEN LexYield(Lex("TokenCall", <<tok>>).tok, "yr1", c, NoToken, tok, scan)
         ELSE LexRaise(err, tok, scan)
    ELSE IF err.msg = "MISSING_SPACE_BEFORE_OPERATOR"
    THEN LET new == Lex("TokenInit", <<c, scan>>)
         IN  IF new.tok.symbol = "RPAREN"
             THEN LexYield(Lex("TokenCall", <<tok>>).tok, "yr2", c, new.tok, tok, scan)
             ELSE LexRaise(err, tok, scan)
    ELSE LexRaise(err, tok, scan)

\* Cases 7, 8 and 9 of Lexer.next: a character that is not a space
LexChar(tok, c, scan) ==
    IF tok = NoToken
    THEN LET new == Lex("TokenInit", <<c, scan>>)
         IN  IF ~new.ok THEN LexRaise(new.err, tok, scan)
             ELSE IF new.tok.symbol = "COLON"
             THEN \* LythError has no member TOO_MUCH_SPACE_BEFORE
                  LexRaise(NoMember("TOO_MUCH_SPACE_BEFORE"), new.tok, scan)
             ELSE Lex("LexLoop", <<new.tok, scan>>)
    ELSE IF c = ":"
    THEN LexYield(tok, "y8", c, NoToken, tok, scan)
    ELSE LET r == Lex("TokenAdd", <<tok, c>>)
         IN  IF r.ok THEN Lex("LexLoop", <<r.tok, scan>>)
             ELSE Lex("LexRecover", <<r.err, tok, c, scan>>)

\* After case 3 of Lexer.next: token = None, then case 4 (a space seen
\* while the scanner's offset is 0 starts an indent)
LexAfterEOL(scan) ==
    IF scan.offset = 0
    THEN Lex("LexLoop", <<Lex("TokenInit", <<" ", scan>>).tok, scan>>)
    ELSE Lex("LexLoop", <<NoToken, scan>>)

\* Case 3 of Lexer.next, reached once cases 1 and 2 are over
LexSpace(c, scan) ==
    IF c = "\n"
    THEN LexYield(Lex("TokenInit", <<"\n", scan>>).tok, "y3", c, NoToken, NoToken, scan)
    ELSE Lex("LexAfterEOL", <<scan>>)

\* The while loop of Lexer.next, entered at its top with the token under
\* construction.
LexLoop(tok, scan) ==
    LET r == Lex("ScanNext", <<scan>>)
        c == r.c
        s == r.s
    IN  IF c = END
        THEN \* except StopIteration (a token under construction is never EOL)
             IF tok # NoToken
             THEN LexRaise(SyntaxErr("MISSING_EMPTY_LINE", tok.lineno, tok.offset), tok, s)
             ELSE LexYield(TokenEOF(s), "yeof", "", NoToken, NoToken, s)
        ELSE IF IsSpace(c)
        THEN IF tok # NoToken /\ tok.symbol # "INDENT"
             THEN LexYield(Lex("TokenCall", <<tok>>).tok, "y1", c, NoToken, tok, s)
             ELSE IF tok # NoToken
             THEN Lex("LexLoop", <<Lex("TokenAdd", <<tok, " ">>).tok, s>>)
             ELSE Lex("LexSpace", <<c, s>>)
        ELSE IF tok # NoToken /\ tok.symbol = "INDENT"
        THEN LET f == Lex("TokenCall", <<tok>>)
             IN  IF f.ok THEN LexYield(f.tok, "y6", c, NoToken, tok, s)
                 ELSE LexRaise(f.err, tok, s)
        ELSE Lex("LexChar", <<tok, c, s>>)

\* One next(lexer): resume Lexer.next at the yield it is suspended at.
LexNext(lex, scan) ==
    CASE lex.pc = "done" -> LexStop(lex, scan)
      [] lex.pc = "loop" -> Lex("LexLoop", <<lex.tok, scan>>)
      [] lex.pc = "y1"   -> Lex("LexSpace", <<lex.ch, scan>>)
      [] lex.pc = "y3"   -> Lex("LexAfterEOL", <<scan>>)
      [] lex.pc = "y6"   -> Lex("LexChar", <<NoToken, lex.ch, scan>>)
      [] lex.pc = "y8"   -> Lex("LexLoop", <<Lex("TokenInit", <<lex.ch, scan>>).tok, scan>>)
      [] lex.pc = "yeof" -> LexStop(lex, scan)
      [] lex.pc = "yr1"  -> Lex("LexLoop", <<Lex("TokenInit", <<lex.ch, scan>>).tok, scan>>)
      [] lex.pc = "yr2"  -> Lex("LexLoop", <<lex.newtok, scan>>)

Lex(rule, a) ==
    CASE rule = "ScanLoop" -> ScanLoop(a[1])
      [] rule = "ScanNext" -> ScanNext(a[1])
      [] rule = "TokenInit" -> TokenInit(a[1], a[2])
      [] rule = "TokenCall" -> TokenCall(a[1])
      [] rule = "TokenAdd" -> TokenAdd(a[1], a[2])
      [] rule = "LexRecover" -> LexRecover(a[1], a[2], a[3], a[4])
      [] rule = "LexChar" -> LexChar(a[1], a[2], a[3])
      [] rule = "LexAfterEOL" -> LexAfterEOL(a[1])
      [] rule = "LexSpace" -> LexSpace(a[1], a[2])
      [] rule = "LexLoop" -> LexLoop(a[1], a[2])
      [] rule = "LexNext" -> LexNext(a[1], a[2])

----------------------------------------------------------------------------
(* ast.py                                                                   *)

\* NodeType.as_value: the node kind for a token's symbol.  A symbol that is
\* not the value of a NodeType member gives Python's None ("PyNone"); the
\* symbol None (Node.noop) gives NodeType.Noop.
NodeTypeAsValue(symbol) ==
    CASE symbol = "ADD"     -> "Add"
      [] symbol = "class"   -> "Class"
      [] symbol = "DOC"     -> "Doc"
      [] symbol = "DIV"     -> "Div"
      [] symbol = "RASSIGN" -> "ImmutableAssign"
      [] symbol = "kw_LET"  -> "Let"
      [] symbol = "MUL"     -> "Mul"
      [] symbol = "LASSIGN" -> "MutableAssign"
      [] symbol = "STRING"  -> "Name"
      [] symbol = "None"    -> "Noop"
      [] symbol = "VALUE"   -> "Num"
      [] symbol = "SUB"     -> "Sub"
      [] symbol = "type"    -> "Type"
      [] OTHER              -> "PyNone"

\* Python's None where a Node is expected (the base of a class without be)
NoNode ==
    [name |-> "PyNone", leaf |-> FALSE, kids |-> <<>>, lexeme |-> <<>>,
     num |-> -1, lineno |-> -2, offset |-> -2]

\* Node.__init__: the children are the nodes given, or the token's lexeme
\* alone when none is given (leaf)
\* a Node that keeps its children in the reverse order
NodeReversed(token, nodes) ==
    [name   |-> NodeTypeAsValue(token.symbol),
     leaf   |-> nodes = <<>>,
     kids   |-> [i \in 1..Len(nodes) |-> nodes[Len(nodes) + 1 - i]],
     lexeme |-> IF nodes = <<>> THEN token.lexeme ELSE <<>>,
     num    |-> IF nodes = <<>> THEN token.num ELSE -1,
     lineno |-> token.lineno,
     offset |-> token.offset]

Node(token, nodes) ==
    [name   |-> NodeTypeAsValue(token.symbol),
     leaf   |-> nodes = <<>>,
     kids   |-> nodes,
     lexeme |-> IF nodes = <<>> THEN token.lexeme ELSE <<>>,
     num    |-> IF nodes = <<>> THEN token.num ELSE -1,
     lineno |-> token.lineno,
     offset |-> token.offset]

\* the SimpleNamespace that stands for a token in Node.noop / classdef / typedef
Namespace(symbol, lineno, offset) ==
    [symbol |-> symbol, lexeme |-> <<>>, num |-> -1,
     lineno |-> lineno, offset |-> offset, quotes |-> 0]

\* Node.noop
NodeNoop == Node(Namespace("None", -1, -1), <<>>)

\* Node.classdef
NodeClassdef(name, base, nodes) ==
    Node(Namespace("class", name.lineno, name.offset), <<name, base>> \o nodes)

\* Node.typedef
NodeTypedef(name) ==
    Node(Namespace("type", name.lineno, name.offset), <<name>>)

\* len(node._children)
NumChildren(node) == IF node.leaf THEN 1 ELSE Len(node.kids)

----------------------------------------------------------------------------
(* parser.py                                                                *)
(* The state of a Parser with its Lexer and Scanner is one record st; each  *)
(* method is an operator from st to the state it leaves and either the      *)
(* value it returns or the exception it raises.                             *)

\* Parser.__init__ over Lexer(Scanner(data))
ParserState(ind, tok, lex, scan) ==
    [indent |-> ind, token |-> tok, lexer |-> lex, scanner |-> scan]

StopIteration == Exc("StopIteration", "OK", -1, -1)

POk(st, node) == [st |-> st, node |-> node, err |-> NoError]

PFail(st, err) == [st |-> st, node |-> NoNode, err |-> err]

NodeErr(msg, node) == SyntaxErr(msg, node.lineno, node.offset)

TokErr(msg, tok) == SyntaxErr(msg, tok.lineno, tok.offset)

\* The methods of the Parser call one another through Parse, which selects
\* the method by its name; arg is the second argument of the methods that
\* take one.
RECURSIVE Parse(_, _, _)

\* next(self.lexer) / self.lexer()
PullToken(st) ==
    LET pulled(r) ==
            [st |-> [st EXCEPT !.lexer = r.lexer, !.scanner = r.scanner],
             tok |-> IF r.kind = "tok" THEN r.tok ELSE NoToken,
             err |-> CASE r.kind = "tok" -> NoError
                       [] r.kind = "err" -> r.err
                       [] OTHER -> StopIteration]
    IN  pulled(Lex("LexNext", <<st.lexer, st.scanner>>))

\* self.token or next(self.lexer)
SavedOrPull(st) ==
    IF st.token # NoToken
    THEN [st |-> st, tok |-> st.token, err |-> NoError]
    ELSE Parse("PullToken", st, <<>>)

\* Parser.addition
addition(st) ==
    LET r == Parse("multiplication", st, <<>>)
    IN  IF r.err # NoError
        THEN IF r.err.cls = "LythSyntaxError" /\ r.err.msg = "INCOMPLETE_LINE"
             THEN POk(r.st, NodeNoop)
             ELSE r
        ELSE Parse("AddLoop", r.st, r.node)

\* the while loop of Parser.addition
AddLoop(st, node) ==
    LET g == Parse("SavedOrPull", st, <<>>)
    IN  IF g.err # NoError THEN PFail(g.st, g.err)
        ELSE IF g.tok.symbol \in {"ADD", "SUB"}
        THEN LET r == Parse("multiplication", [g.st EXCEPT !.token = NoToken], <<>>)
             IN  IF r.err # NoError THEN r
                 ELSE Parse("AddLoop", r.st, Node(g.tok, <<node, r.node>>))
        ELSE POk([g.st EXCEPT !.token = g.tok], node)

\* Parser.multiplication
multiplication(st) ==
    LET r == Parse("literal", st, <<>>)
    IN  IF r.err # NoError THEN r ELSE Parse("MulLoop", r.st, r.node)

\* the while loop of Parser.multiplication
MulLoop(st, node) ==
    LET g == Parse("SavedOrPull", st, <<>>)
    IN  IF g.err # NoError THEN PFail(g.st, g.err)
        ELSE IF g.tok.symbol \in {"MUL", "DIV", "FLOOR"}
        THEN LET r == Parse("literal", [g.st EXCEPT !.token = NoToken], <<>>)
             IN  IF r.err # NoError THEN r
                 ELSE Parse("MulLoop", r.st, Node(g.tok, <<node, r.node>>))
        ELSE POk([g.st EXCEPT !.token = g.tok], node)

\* Parser.literal
literal(st) ==
    LET g == Parse("SavedOrPull", st, <<>>)
        st1 == [g.st EXCEPT !.token = NoToken]
    IN  IF g.err # NoError THEN PFail(g.st, g.err)
        ELSE IF g.tok.symbol \in {"EOF", "EOL"}
        THEN PFail(st1, TokErr("INCOMPLETE_LINE", g.tok))
        ELSE IF g.tok.symbol = "LPAREN"
        THEN Parse("expression", st1, "RPAREN")
        ELSE IF g.tok.symbol = "DOC"
        THEN LET d == Parse("docstring", st1, <<>>)
             IN  IF d.err # NoError THEN d ELSE Parse("literal", d.st, <<>>)
        ELSE IF g.tok.symbol \notin {"VALUE", "STRING"}
        THEN PFail(st1, TokErr("LITERAL_EXPECTED", g.tok))
        ELSE POk(st1, Node(g.tok, <<>>))

\* Parser.name
name(st) ==
    LET g == Parse("SavedOrPull", st, <<>>)
    IN  IF g.err # NoError THEN PFail(g.st, g.err)
        ELSE IF g.tok.symbol \in {"EOF", "EOL"}
        THEN PFail(g.st, TokErr("INCOMPLETE_LINE", g.tok))
        ELSE IF g.tok.symbol # "STRING"
        THEN PFail(g.st, TokErr("NAME_EXPECTED", g.tok))
        ELSE POk(g.st, Node(g.tok, <<>>))

\* Parser.docstring: pull tokens up to and including the next DOC
docstring(st) ==
    LET g == Parse("PullToken", st, <<>>)
    IN  IF g.err # NoError THEN PFail(g.st, g.err)
        ELSE IF g.tok.symbol # "DOC" THEN Parse("docstring", g.st, <<>>)
        ELSE POk(g.st, NoNode)

\* Parser.expression
expression(st, end) ==
    LET r == Parse("addition", st, <<>>)
        tok == r.st.token
    IN  IF r.err # NoError THEN r
        ELSE IF tok.symbol \in {"LASSIGN", "RASSIGN"}
        THEN r
        ELSE IF r.node.name = "Name" /\ tok.symbol \in {"COLON", "kw_BE"}
        THEN Parse("classdef", r.st, r.node)
        ELSE IF tok # NoToken /\ tok.symbol # end
        THEN PFail(r.st, NodeErr("GARBAGE_CHARACTERS", r.node))
        ELSE POk([r.st EXCEPT !.token = NoToken], r.node)

\* Parser.classdef
classdef(st, nm) ==
    LET g == Parse("SavedOrPull", st, <<>>)
    IN  IF g.err # NoError THEN PFail(g.st, g.err)
        ELSE IF g.tok.symbol = "kw_BE"
        THEN LET g1 == Parse("PullToken", g.st, <<>>)
                 n  == Parse("name", [g1.st EXCEPT !.token = g1.tok], <<>>)
                 g2 == Parse("PullToken", n.st, <<>>)
             IN  IF g1.err # NoError THEN PFail(g1.st, g1.err)
                 ELSE IF n.err # NoError THEN n
                 ELSE IF g2.err # NoError THEN PFail(g2.st, g2.err)
                 ELSE IF g2.tok.symbol # "COLON"
                 THEN \* the raise names node_type, which is not defined
                      PFail(g2.st, Exc("NameError", "OK", -1, -1))
                 ELSE LET b == Parse("block", [g2.st EXCEPT !.token = NoToken], <<>>)
                      IN  IF b.err # NoError THEN b
                          ELSE POk(b.st, NodeClassdef(nm, NodeTypedef(n.node), b.node))
        ELSE IF g.tok.symbol # "COLON"
        THEN PFail(g.st, Exc("NameError", "OK", -1, -1))
        ELSE LET b == Parse("block", [g.st EXCEPT !.token = NoToken], <<>>)
             IN  IF b.err # NoError THEN b
                 ELSE POk(b.st, NodeClassdef(nm, NoNode, b.node))

\* Parser.block: the node field of the result is the list of statements
block(st) == Parse("BlockLoop", [st EXCEPT !.indent = @ + 1], <<>>)

\* the while loop of Parser.block
BlockLoop(st, statements) ==
    LET g == Parse("SavedOrPull", st, <<>>)
    IN  IF g.err # NoError THEN PFail(g.st, g.err)
        ELSE IF g.tok.symbol = "EOL"
        THEN Parse("BlockLoop", [g.st EXCEPT !.token = NoToken], statements)
        ELSE IF g.tok.symbol = "EOF"
        THEN POk([g.st EXCEPT !.token = g.tok], statements)
        ELSE IF g.tok.symbol # "INDENT"
        THEN PFail(g.st, NoMember("INCONSISTENT_INDENT"))
        ELSE IF g.tok.num <= g.st.indent - 1
        THEN POk([g.st EXCEPT !.indent = g.tok.num, !.token = g.tok], statements)
        ELSE IF g.tok.num # g.st.indent
        THEN PFail(g.st, NoMember("INCONSISTENT_INDENT"))
        ELSE LET a == Parse("assign", g.st, <<>>)
             IN  IF a.err # NoError THEN a
                 ELSE Parse("BlockLoop", a.st, Append(statements, a.node))

\* Parser.let: the result carries the let token (NoToken for None) as well
let(st) ==
    LET g == Parse("PullToken", st, <<>>)
        none(r) == [st |-> r.st, node |-> r.node, err |-> r.err, let |-> NoToken]
    IN  IF g.err # NoError THEN none(PFail(g.st, g.err))
        ELSE IF g.tok.symbol = "kw_LET"
        THEN LET g1 == Parse("PullToken", g.st, <<>>)
             IN  IF g1.err # NoError THEN none(PFail(g1.st, g1.err))
                 ELSE IF g1.tok.symbol = "COLON"
                 THEN LET g2 == Parse("PullToken", g1.st, <<>>)
                      IN  IF g2.err # NoError THEN none(PFail(g2.st, g2.err))
                          ELSE IF g2.tok.symbol # "EOL"
                          THEN none(PFail(g2.st, TokErr("GARBAGE_CHARACTERS", g2.tok)))
                          ELSE LET b == Parse("block", g2.st, <<>>)
                               IN  IF b.err # NoError THEN none(b)
                                   ELSE none(POk(b.st, Node(g.tok, b.node)))
                 ELSE LET e == Parse("expression", [g1.st EXCEPT !.token = g1.tok], "EOL")
                      IN  [st |-> e.st, node |-> e.node, err |-> e.err, let |-> g.tok]
        ELSE none(Parse("expression", [g.st EXCEPT !.token = g.tok], "EOL"))

\* an assign that checks neither the left member of <- nor what follows let
assignUnchecked(st) ==
    LET l == Parse("let", st, <<>>)
        tok == l.st.token
        wrap(s, n) == POk(s, IF l.let # NoToken THEN Node(l.let, <<n>>) ELSE n)
    IN  IF l.err # NoError THEN PFail(l.st, l.err)
        ELSE IF tok.symbol = "LASSIGN"
        THEN LET e == Parse("expression", [l.st EXCEPT !.token = NoToken], "EOL")
             IN  IF e.err # NoError THEN e
                 ELSE wrap(e.st, Node(tok, <<l.node, e.node>>))
        ELSE IF tok.symbol = "RASSIGN"
        THEN LET n == Parse("name", [l.st EXCEPT !.token = NoToken], <<>>)
                 node == Node(tok, <<n.node, l.node>>)
                 g == Parse("PullToken", n.st, <<>>)
             IN  IF n.err # NoError THEN n
                 ELSE IF g.err # NoError THEN PFail(g.st, g.err)
                 ELSE IF g.tok.symbol # "EOL"
                 THEN PFail(g.st, NodeErr("GARBAGE_CHARACTERS", node))
                 ELSE wrap(g.st, node)
        ELSE wrap(l.st, l.node)

\* Parser.assign
assign(st) ==
    LET l == Parse("let", st, <<>>)
        tok == l.st.token
        wrap(s, n) == POk(s, IF l.let # NoToken THEN Node(l.let, <<n>>) ELSE n)
    IN  IF l.err # NoError THEN PFail(l.st, l.err)
        ELSE IF tok.symbol = "LASSIGN"
        THEN IF l.node.name \notin {"Name", "Let"}
             THEN PFail(l.st, NodeErr("LEFT_MEMBER_IS_EXPRESSION", l.node))
             ELSE LET e == Parse("expression", [l.st EXCEPT !.token = NoToken], "EOL")
                  IN  IF e.err # NoError THEN e
                      ELSE wrap(e.st, Node(tok, <<l.node, e.node>>))
        ELSE IF tok.symbol = "RASSIGN"
        THEN LET n == Parse("name", [l.st EXCEPT !.token = NoToken], <<>>)
                 node == Node(tok, <<n.node, l.node>>)
                 g == Parse("PullToken", n.st, <<>>)
             IN  IF n.err # NoError THEN n
                 ELSE IF g.err # NoError THEN PFail(g.st, g.err)
                 ELSE IF g.tok.symbol # "EOL"
                 THEN PFail(g.st, NodeErr("GARBAGE_CHARACTERS", node))
                 ELSE wrap(g.st, node)
        ELSE IF l.let # NoToken /\ l.node.name # "Class"
        THEN PFail(l.st, TokErr("LET_ON_EXPRESSION", l.let))
        ELSE wrap(l.st, l.node)

Parse(rule, st, arg) ==
    CASE rule = "PullToken" -> PullToken(st)
      [] rule = "SavedOrPull" -> SavedOrPull(st)
      [] rule = "addition" -> addition(st)
      [] rule = "AddLoop" -> AddLoop(st, arg)
      [] rule = "multiplication" -> multiplication(st)
      [] rule = "MulLoop" -> MulLoop(st, arg)
      [] rule = "literal" -> literal(st)
      [] rule = "name" -> name(st)
      [] rule = "docstring" -> docstring(st)
      [] rule = "expression" -> expression(st, arg)
      [] rule = "classdef" -> classdef(st, arg)
      [] rule = "block" -> block(st)
      [] rule = "BlockLoop" -> BlockLoop(st, arg)
      [] rule = "let" -> let(st)
      [] rule = "assign" -> assign(st)

\* One next(parser): resume Parser._next.  pc is "start" before the first
\* pull, "yield" while suspended at "yield node", "done" once finished.
ParserNext(st, pc) ==
    IF pc = "done"
    THEN [st |-> st, pc |-> "done", kind |-> "stop", node |-> NoNode, err |-> NoError]
    ELSE LET resumed(a) ==
                 IF a.err = NoError
                 THEN [st |-> a.st, pc |-> "yield", kind |-> "node", node |-> a.node, err |-> NoError]
                 ELSE IF a.err.cls = "StopIteration"
                 THEN [st |-> a.st, pc |-> "done", kind |-> "stop", node |-> NoNode, err |-> NoError]
                 ELSE [st |-> a.st, pc |-> "done", kind |-> "err", node |-> NoNode, err |-> a.err]
         IN  resumed(Parse("assign", IF pc = "yield" THEN [st EXCEPT !.token = NoToken] ELSE st, <<>>))

----------------------------------------------------------------------------
(* Python numbers.                                                          *)
(* An int is [k |-> "int", n |-> n].  A float is an IEEE-754 double         *)
(* [k |-> "float", s, m, e] of value (-1)^s * m * 2^e, where the mantissa m *)
(* is a natural number of exactly 53 bits (or 0, with e = 0), held as a     *)
(* little-endian sequence of limbs in base 2^14 because it does not fit a   *)
(* machine integer of TLC.  Every float operation computes the               *)
(* exact result and rounds it to nearest, ties to even, as the hardware     *)
(* does.  Overflow and subnormals are out of reach of the values modelled.  *)

LimbBase == 16384

LimbBits == 14

MantBits == 53

RECURSIVE Pow2(_)
Pow2(k) == IF k = 0 THEN 1 ELSE 2 * Pow2(k - 1)

Abs(n) == IF n < 0 THEN -n ELSE n

RECURSIVE BigNorm(_)
BigNorm(a) ==
    IF a # <<>> /\ a[Len(a)] = 0 THEN BigNorm(SubSeq(a, 1, Len(a) - 1)) ELSE a

RECURSIVE BigFromInt(_)
BigFromInt(n) ==
    IF n = 0 THEN <<>> ELSE <<n % LimbBase>> \o BigFromInt(n \div LimbBase)

RECURSIVE BigCmpFrom(_, _, _)
BigCmpFrom(a, b, i) ==
    IF i = 0 THEN 0
    ELSE IF a[i] < b[i] THEN -1
    ELSE IF a[i] > b[i] THEN 1
    ELSE BigCmpFrom(a, b, i - 1)

\* -1, 0 or 1 as a < b, a = b, a > b
BigCmp(a, b) ==
    IF Len(a) < Len(b) THEN -1
    ELSE IF Len(a) > Len(b) THEN 1
    ELSE BigCmpFrom(a, b, Len(a))

RECURSIVE BigAddC(_, _, _)
BigAddC(a, b, carry) ==
    IF a = <<>> /\ b = <<>> THEN (IF carry = 0 THEN <<>> ELSE <<carry>>)
    ELSE LET x == IF a = <<>> THEN 0 ELSE Head(a)
             y == IF b = <<>> THEN 0 ELSE Head(b)
             t == x + y + carry
         IN  <<t % LimbBase>> \o BigAddC(IF a = <<>> THEN a ELSE Tail(a),
                                         IF b = <<>> THEN b ELSE Tail(b),
                                         t \div LimbBase)

BigAdd(a, b) == BigAddC(a, b, 0)

RECURSIVE BigSubB(_, _, _)
BigSubB(a, b, borrow) ==
    IF a = <<>> THEN <<>>
    ELSE LET y == IF b = <<>> THEN 0 ELSE Head(b)
             t == Head(a) - y - borrow
         IN  <<IF t < 0 THEN t + LimbBase ELSE t>>
             \o BigSubB(Tail(a), IF b = <<>> THEN b ELSE Tail(b),
                        IF t < 0 THEN 1 ELSE 0)

\* a - b for a >= b
BigSub(a, b) == BigNorm(BigSubB(a, b, 0))

RECURSIVE BigMulSmallC(_, _, _)
BigMulSmallC(a, c, carry) ==
    IF a = <<>> THEN (IF carry = 0 THEN <<>> ELSE <<carry>>)
    ELSE LET t == Head(a) * c + carry
         IN  <<t % LimbBase>> \o BigMulSmallC(Tail(a), c, t \div LimbBase)

\* a * c for 0 <= c < LimbBase
BigMulSmall(a, c) == BigNorm(BigMulSmallC(a, c, 0))

RECURSIVE BigMul(_, _)
BigMul(a, b) ==
    IF a = <<>> \/ b = <<>> THEN <<>>
    ELSE LET rest == BigMul(a, Tail(b))
         IN  BigAdd(BigMulSmall(a, Head(b)),
                    IF rest = <<>> THEN <<>> ELSE <<0>> \o rest)

RECURSIVE BitLenSmall(_)
BitLenSmall(n) == IF n = 0 THEN 0 ELSE 1 + BitLenSmall(n \div 2)

BigBitLen(a) ==
    IF a = <<>> THEN 0 ELSE LimbBits * (Len(a) - 1) + BitLenSmall(a[Len(a)])

RECURSIVE BigShl(_, _)
BigShl(a, k) ==
    IF a = <<>> THEN <<>>
    ELSE IF k >= LimbBits THEN <<0>> \o BigShl(a, k - LimbBits)
    ELSE BigMulSmall(a, Pow2(k))

\* is a odd
BigOdd(a) == a # <<>> /\ a[1] % 2 = 1

\* The largest d + k with 0 <= k < 2^bits and (d + k) * b <= r, given d * b <= r:
\* one digit of a long division, found bit by bit
RECURSIVE BigDigit(_, _, _, _)
BigDigit(r, b, d, bits) ==
    IF bits = 0 THEN d
    ELSE LET t == d + Pow2(bits - 1)
         IN  IF BigCmp(BigMulSmall(b, t), r) <= 0
             THEN BigDigit(r, b, t, bits - 1)
             ELSE BigDigit(r, b, d, bits - 1)

\* Long division of the limbs i..Len(a) of a by b (b # 0), most significant
\* limb first: the quotient limbs and the remainder
RECURSIVE BigDivFrom(_, _, _)
BigDivFrom(a, b, i) ==
    IF i > Len(a) THEN [q |-> <<>>, r |-> <<>>]
    ELSE LET h == BigDivFrom(a, b, i + 1)
             r == BigNorm(<<a[i]>> \o h.r)
             d == BigDigit(r, b, 0, LimbBits)
         IN  [q |-> <<d>> \o h.q, r |-> BigSub(r, BigMulSmall(b, d))]

\* floor(a / b) and a mod b
BigDivMod(a, b) ==
    LET h == BigDivFrom(a, b, 1) IN [q |-> BigNorm(h.q), r |-> h.r]

IntV(n) == [k |-> "int", n |-> n]

FloatV(s, m, e) == [k |-> "float", s |-> s, m |-> m, e |-> e]

\* The double nearest to (-1)^s * (n + f) * 2^e, where n is a natural number
\* and 0 <= f < 1 is known only as zero (sticky = FALSE) or not (TRUE)
RoundToDouble(s, n, e, sticky) ==
    LET len == BigBitLen(n)
        \* the mantissa may have grown to 54 bits by rounding up
        carried(d, q) ==
            IF BigBitLen(q) > MantBits
            THEN FloatV(s, BigDivMod(q, <<2>>).q, e + d + 1)
            ELSE FloatV(s, q, e + d)
        \* half is -1, 0, 1 as the dropped bits are below, at, above one half
        rounded(d, dm, half) ==
            carried(d, IF half > 0 \/ (half = 0 /\ (sticky \/ BigOdd(dm.q)))
                       THEN BigAdd(dm.q, <<1>>) ELSE dm.q)
        split(d, dm) == rounded(d, dm, BigCmp(dm.r, BigShl(<<1>>, d - 1)))
    IN  IF n = <<>> THEN FloatV(s, <<>>, 0)
        ELSE IF len <= MantBits
        THEN FloatV(s, BigShl(n, MantBits - len), e - (MantBits - len))
        ELSE split(len - MantBits, BigDivMod(n, BigShl(<<1>>, len - MantBits)))

\* float(n) for an int n
IntToFloat(n) == RoundToDouble(IF n < 0 THEN 1 ELSE 0, BigFromInt(Abs(n)), 0, FALSE)

FloatNeg(x) == [x EXCEPT !.s = 1 - @]

\* x + y on floats
FloatAdd(x, y) ==
    LET e == IF x.e < y.e THEN x.e ELSE y.e
        \* mx, my: the mantissas at the common exponent e; c compares them
        sum(mx, my, c) ==
            IF x.s = y.s THEN [s |-> x.s, n |-> BigAdd(mx, my)]
            ELSE IF c > 0 THEN [s |-> x.s, n |-> BigSub(mx, my)]
            ELSE IF c < 0 THEN [s |-> y.s, n |-> BigSub(my, mx)]
            ELSE [s |-> 0, n |-> <<>>]
        aligned(mx, my) == sum(mx, my, BigCmp(mx, my))
        round(t) == RoundToDouble(t.s, t.n, e, FALSE)
    IN  IF x.m = <<>> /\ y.m = <<>>
        THEN FloatV(IF x.s = 1 /\ y.s = 1 THEN 1 ELSE 0, <<>>, 0)
        ELSE IF x.m = <<>> THEN y
        ELSE IF y.m = <<>> THEN x
        ELSE round(aligned(BigShl(x.m, x.e - e), BigShl(y.m, y.e - e)))

\* x * y on floats
FloatMul(x, y) ==
    RoundToDouble((x.s + y.s) % 2, BigMul(x.m, y.m), x.e + y.e, FALSE)

\* x / y on floats, y not zero
FloatDiv(x, y) ==
    LET round(dm) ==
            RoundToDouble((x.s + y.s) % 2, dm.q, x.e - y.e - (MantBits + 3), dm.r # <<>>)
    IN  round(BigDivMod(BigShl(x.m, MantBits + 3), y.m))

IsNumber(v) == v.k \in {"int", "float"}

ToFloat(v) == IF v.k = "int" THEN IntToFloat(v.n) ELSE v

IsZero(v) == IF v.k = "int" THEN v.n = 0 ELSE v.m = <<>>

PyOk(v) == [ok |-> TRUE, val |-> v, err |-> NoError]

PyRaise(cls) == [ok |-> FALSE, val |-> [k |-> "none"], err |-> Exc(cls, "OK", -1, -1)]

\* left + right, left - right, left * right, left / right on two floats
FloatArith(op, x, y) ==
    CASE op = "Add" -> FloatAdd(x, y)
      [] op = "Sub" -> FloatAdd(x, FloatNeg(y))
      [] op = "Mul" -> FloatMul(x, y)
      [] op = "Div" -> FloatDiv(x, y)

\* arithmetic whose division is the floored one (//)
PyArithFloor(op, l, r) ==
    IF ~(IsNumber(l) /\ IsNumber(r)) THEN PyRaise("TypeError")
    ELSE IF op = "Div" /\ IsZero(r) THEN PyRaise("ZeroDivisionError")
    ELSE IF l.k = "int" /\ r.k = "int"
    THEN PyOk(IntV(CASE op = "Add" -> l.n + r.n
                     [] op = "Sub" -> l.n - r.n
                     [] op = "Mul" -> l.n * r.n
                     [] op = "Div" -> l.n \div r.n))
    ELSE PyOk(FloatArith(op, ToFloat(l), ToFloat(r)))

\* left + right, left - right, left * right, left / right on Python values;
\* op is the node kind.  Operands that are not numbers (None, a name) have
\* no arithmetic in the language: TypeError.  Two ints give an int, except
\* that / always gives a float; an int meeting a float is converted.
PyArith(op, l, r) ==
    IF ~(IsNumber(l) /\ IsNumber(r)) THEN PyRaise("TypeError")
    ELSE IF op = "Div" /\ IsZero(r) THEN PyRaise("ZeroDivisionError")
    ELSE IF op # "Div" /\ l.k = "int" /\ r.k = "int"
    THEN PyOk(IntV(CASE op = "Add" -> l.n + r.n
                     [] op = "Sub" -> l.n - r.n
                     [] op = "Mul" -> l.n * r.n))
    ELSE PyOk(FloatArith(op, ToFloat(l), ToFloat(r)))

----------------------------------------------------------------------------
(* Python string comparison: lexicographic on code points                   *)

AsciiOrder ==
    <<"\t", "\n", "\r", " ", "!", "\"", "#", "%", "&", "'", "(", ")", "*",
      "+", ",", "-", ".", "/", "0", "1", "2", "3", "4", "5", "6", "7", "8",
      "9", ":", ";", "<", "=", ">", "?", "A", "B", "C", "D", "E", "F", "G",
      "H", "I", "J", "K", "L", "M", "N", "O", "P", "Q", "R", "S", "T", "U",
      "V", "W", "X", "Y", "Z", "^", "_", "a", "b", "c", "d", "e", "f", "g",
      "h", "i", "j", "k", "l", "m", "n", "o", "p", "q", "r", "s", "t", "u",
      "v", "w", "x", "y", "z", "|">>

Ord(c) == CHOOSE i \in 1..Len(AsciiOrder) : AsciiOrder[i] = c

RECURSIVE StrLt(_, _)
StrLt(a, b) ==
    IF b = <<>> THEN FALSE
    ELSE IF a = <<>> THEN TRUE
    ELSE IF Head(a) = Head(b) THEN StrLt(Tail(a), Tail(b))
    ELSE Ord(Head(a)) < Ord(Head(b))

----------------------------------------------------------------------------
(* symbol.py                                                                *)

\* Python's None where a Name is expected
Nil == [nil |-> TRUE]

\* Field.UNKNOWN as the value of a symbol
UnknownV == [k |-> "unknown"]

NoneV == [k |-> "none"]

StrV(chars) == [k |-> "str", s |-> chars]

\* SymbolType.__init__
SymbolType(type, mutable, value) ==
    [type |-> type, mutable |-> mutable, value |-> value]

\* Name.__init__
NewName(nm, scope, type) ==
    [name |-> nm, scope |-> scope, type |-> type, left |-> Nil, right |-> Nil]

\* Name.__eq__
NameEq(a, b) == a.name = b.name /\ a.scope = b.scope

\* Name.__lt__
NameLt(a, b) ==
    IF a.name = b.name THEN StrLt(a.scope, b.scope) ELSE StrLt(a.name, b.name)

\* Name.__gt__
NameGt(a, b) ==
    IF a.name = b.name THEN StrLt(b.scope, a.scope) ELSE StrLt(b.name, a.name)

\* an insertion that takes the smaller keys to the right and the greater
\* ones to the left
RECURSIVE NameAddMirror(_, _)
NameAddMirror(self, other) ==
    IF NameLt(self, other)
    THEN IF self.left # Nil
         THEN [self EXCEPT !.left = NameAddMirror(self.left, other)]
         ELSE [self EXCEPT !.left = other]
    ELSE IF NameGt(self, other)
    THEN IF self.right # Nil
         THEN [self EXCEPT !.right = NameAddMirror(self.right, other)]
         ELSE [self EXCEPT !.right = other]
    ELSE self

\* an insertion that gives the type of the new Name to the node that has
\* its key
RECURSIVE NameAddOverwrite(_, _)
NameAddOverwrite(self, other) ==
    IF NameLt(self, other)
    THEN IF self.right # Nil
         THEN [self EXCEPT !.right = NameAddOverwrite(self.right, other)]
         ELSE [self EXCEPT !.right = other]
    ELSE IF NameGt(self, other)
    THEN IF self.left # Nil
         THEN [self EXCEPT !.left = NameAddOverwrite(self.left, other)]
         ELSE [self EXCEPT !.left = other]
    ELSE [self EXCEPT !.type = other.type]

\* Name.__add__: insert other below self, return self
RECURSIVE NameAdd(_, _)
NameAdd(self, other) ==
    IF NameLt(self, other)
    THEN IF self.right # Nil
         THEN [self EXCEPT !.right = NameAdd(self.right, other)]
         ELSE [self EXCEPT !.right = other]
    ELSE IF NameGt(self, other)
    THEN IF self.left # Nil
         THEN [self EXCEPT !.left = NameAdd(self.left, other)]
         ELSE [self EXCEPT !.left = other]
    ELSE self

\* Name.__contains__
RECURSIVE NameContains(_, _)
NameContains(self, other) ==
    IF NameEq(self, other) THEN TRUE
    ELSE IF NameLt(self, other) /\ self.right # Nil
    THEN NameContains(self.right, other)
    ELSE IF NameGt(self, other) /\ self.left # Nil
    THEN NameContains(self.left, other)
    ELSE FALSE

\* a lookup that gives up on a key that is below a child of the node
NameGetShallow(self, key) ==
    LET other == NewName(key[1], key[2], SymbolType("UNKNOWN", "UNKNOWN", UnknownV))
    IN  IF NameEq(other, self) THEN self
        ELSE IF self.left # Nil /\ NameEq(self.left, other) THEN self.left
        ELSE IF self.right # Nil /\ NameEq(self.right, other) THEN self.right
        ELSE Nil

\* Name.__getitem__ for a (name, scope) key, as used by Name.get with the
\* default None: the node found, or Nil on KeyError
RECURSIVE NameGet(_, _)
NameGet(self, key) ==
    LET other == NewName(key[1], key[2], SymbolType("UNKNOWN", "UNKNOWN", UnknownV))
    IN  IF NameEq(other, self) THEN self
        ELSE IF self.left # Nil /\ NameEq(self.left, other) THEN self.left
        ELSE IF self.left # Nil /\ NameContains(self.left, other)
        THEN NameGet(self.left, key)
        ELSE IF self.right # Nil /\ NameEq(self.right, other) THEN self.right
        ELSE IF self.right # Nil /\ NameContains(self.right, other)
        THEN NameGet(self.right, key)
        ELSE Nil

\* "symbol.type.value = v" for the node that self.get(key) returns: the
\* tree with that node's value replaced
RECURSIVE NameSetValue(_, _, _)
NameSetValue(self, key, v) ==
    LET other == NewName(key[1], key[2], SymbolType("UNKNOWN", "UNKNOWN", UnknownV))
    IN  IF NameEq(other, self) THEN [self EXCEPT !.type.value = v]
        ELSE IF self.left # Nil /\ (NameEq(self.left, other) \/ NameContains(self.left, other))
        THEN [self EXCEPT !.left = NameSetValue(self.left, key, v)]
        ELSE IF self.right # Nil /\ (NameEq(self.right, other) \/ NameContains(self.right, other))
        THEN [self EXCEPT !.right = NameSetValue(self.right, key, v)]
        ELSE self

\* Name.get_parent: the node of self that has other as a child, or Nil
RECURSIVE NameGetParent(_, _)
NameGetParent(self, other) ==
    IF NameEq(other, self) THEN Nil
    ELSE IF self.left # Nil /\ NameEq(self.left, other) THEN self
    ELSE IF self.left # Nil /\ NameContains(self.left, other)
    THEN NameGetParent(self.left, other)
    ELSE IF self.right # Nil /\ NameEq(self.right, other) THEN self
    ELSE IF self.right # Nil /\ NameContains(self.right, other)
    THEN NameGetParent(self.right, other)
    ELSE Nil

\* "parent.left = None" or "parent.right = None" on the parent that
\* get_parent finds for node, seen from the root of the tree: a parent whose
\* left child is not the node loses its right child
RECURSIVE NameDetach(_, _, _)
NameDetach(self, parent, node) ==
    IF NameEq(self, parent)
    THEN IF self.left # Nil /\ NameEq(node, self.left)
         THEN [self EXCEPT !.left = Nil]
         ELSE [self EXCEPT !.right = Nil]
    ELSE IF self.left # Nil /\ NameContains(self.left, parent)
    THEN [self EXCEPT !.left = NameDetach(self.left, parent, node)]
    ELSE IF self.right # Nil /\ NameContains(self.right, parent)
    THEN [self EXCEPT !.right = NameDetach(self.right, parent, node)]
    ELSE self

\* the registry once the object old has become new: a registered object is
\* in the registry by reference, so what is done to it shows there
Aliased(rs, old, new) == IF old \in rs THEN (rs \ {old}) \cup {new} ELSE rs

\* Name.__delitem__ for a (name, scope) key: the tree and the registry it
\* leaves, or KeyError when the lookup of the key fails. Every node of the
\* subtree loses its children, the parent lets go of the node, and the node
\* that equals a registered root takes that root out of the registry.
NameDelItem(self, info, rs) ==
    LET node == NameGet(self, info)
        parent == NameGetParent(self, node)
        tree == IF parent = Nil
                THEN [self EXCEPT !.left = Nil, !.right = Nil]
                ELSE NameDetach(self, parent, node)
    IN  IF node = Nil
        THEN [tree |-> self, roots |-> rs,
              err |-> Exc("KeyError", "not in this node", -1, -1)]
        ELSE [tree |-> tree,
              roots |-> {r \in Aliased(rs, self, tree) : ~NameEq(r, node)},
              err |-> NoError]

\* a factory that registers a new root whatever the registry holds
NameRootFresh(rs, nm, scope, type) ==
    LET obj == NewName(nm, scope, type)
    IN  [obj |-> obj, roots |-> {r \in rs : ~NameEq(r, obj)} \cup {obj}]

\* Name.root: the registered root that equals Name(name, scope, type), or
\* this new node once it is registered
NameRoot(rs, nm, scope, type) ==
    LET obj == NewName(nm, scope, type)
    IN  IF \E r \in rs : NameEq(r, obj)
        THEN [obj |-> CHOOSE r \in rs : NameEq(r, obj), roots |-> rs]
        ELSE [obj |-> obj, roots |-> rs \cup {obj}]

----------------------------------------------------------------------------
(* analyzer.py                                                              *)

\* The result of a visit: the symbol table it leaves, and the value it
\* returns or the exception it raises
VOk(tbl, v) == [table |-> tbl, val |-> v, err |-> NoError]

VFail(tbl, err) == [table |-> tbl, val |-> NoneV, err |-> err]

\* node.value
NodeValue(node) ==
    IF node.num # -1 THEN IntV(node.num) ELSE StrV(node.lexeme)

\* the visit_<kind> methods the Analyzer class defines
Visitable ==
    {"Add", "Div", "ImmutableAssign", "Mul", "MutableAssign", "Name", "Noop",
     "Num", "Sub"}

RECURSIVE visit(_, _, _, _)

\* Analyzer.visit_add, visit_sub, visit_mul, visit_div
VisitArith(node, tbl, scope) ==
    LET l == visit(node.kids[1], "LOAD", tbl, scope)
        r == visit(node.kids[2], "LOAD", tbl, scope)
        result(v) == IF ~v.ok THEN VFail(tbl, v.err) ELSE VOk(tbl, v.val)
    IN  IF l.err # NoError THEN l
        ELSE IF r.err # NoError THEN r
        ELSE result(PyArith(node.name, l.val, r.val))

\* an immutable assignment that replaces the value of an existing symbol
VisitImmutableAssignOverwrite(node, tbl, scope) ==
    LET nm == visit(node.kids[1], "STORE", tbl, scope).val.s
        symbol == NameGet(tbl, <<nm, scope>>)
        rhs == visit(node.kids[2], "LOAD", tbl, scope)
    IN  IF rhs.err # NoError THEN rhs
        ELSE IF symbol # Nil
        THEN VOk(NameSetValue(tbl, <<nm, scope>>, rhs.val), NoneV)
        ELSE VOk(NameAdd(tbl, NewName(nm, scope,
                                      SymbolType("UNKNOWN", "IMMUTABLE", rhs.val))),
                 NoneV)

\* Analyzer.visit_immutableassign
VisitImmutableAssign(node, tbl, scope) ==
    LET nm == visit(node.kids[1], "STORE", tbl, scope).val.s
        symbol == NameGet(tbl, <<nm, scope>>)
        rhs == visit(node.kids[2], "LOAD", tbl, scope)
    IN  IF symbol # Nil
        THEN VFail(tbl, NodeErr("REASSIGN_IMMUTABLE", node))
        ELSE IF rhs.err # NoError THEN rhs
        ELSE VOk(NameAdd(tbl, NewName(nm, scope,
                                      SymbolType("UNKNOWN", "IMMUTABLE", rhs.val))),
                 NoneV)

\* a mutable assignment that leaves an existing symbol as it is
VisitMutableAssignKeep(node, tbl, scope) ==
    LET nm == visit(node.kids[1], "STORE", tbl, scope).val.s
        symbol == NameGet(tbl, <<nm, scope>>)
        rhs == visit(node.kids[2], "LOAD", tbl, scope)
    IN  IF rhs.err # NoError THEN rhs
        ELSE IF symbol # Nil THEN VOk(tbl, NoneV)
        ELSE VOk(NameAdd(tbl, NewName(nm, scope,
                                      SymbolType("UNKNOWN", "MUTABLE", rhs.val))),
                 NoneV)

\* a mutable assignment that enters its target into the table before it
\* evaluates the right member
VisitMutableAssignEarly(node, tbl, scope) ==
    LET nm == visit(node.kids[1], "STORE", tbl, scope).val.s
        symbol == NameGet(tbl, <<nm, scope>>)
        entered == NameAdd(tbl, NewName(nm, scope,
                                        SymbolType("UNKNOWN", "MUTABLE", UnknownV)))
        rhs == visit(node.kids[2], "LOAD", tbl, scope)
    IN  IF rhs.err # NoError THEN VFail(entered, rhs.err)
        ELSE IF symbol # Nil
        THEN VOk(NameSetValue(tbl, <<nm, scope>>, rhs.val), NoneV)
        ELSE VOk(NameAdd(tbl, NewName(nm, scope,
                                      SymbolType("UNKNOWN", "MUTABLE", rhs.val))),
                 NoneV)

\* Analyzer.visit_mutableassign
VisitMutableAssign(node, tbl, scope) ==
    LET nm == visit(node.kids[1], "STORE", tbl, scope).val.s
        symbol == NameGet(tbl, <<nm, scope>>)
        rhs == visit(node.kids[2], "LOAD", tbl, scope)
    IN  IF rhs.err # NoError THEN rhs
        ELSE IF symbol # Nil
        THEN VOk(NameSetValue(tbl, <<nm, scope>>, rhs.val), NoneV)
        ELSE VOk(NameAdd(tbl, NewName(nm, scope,
                                      SymbolType("UNKNOWN", "MUTABLE", rhs.val))),
                 NoneV)

\* Analyzer.visit_name
VisitName(node, context, tbl, scope) ==
    LET symbol == NameGet(tbl, <<node.lexeme, scope>>)
    IN  IF context = "STORE" THEN VOk(tbl, NodeValue(node))
        ELSE IF symbol = Nil
        THEN VFail(tbl, NodeErr("VARIABLE_REFERENCED_BEFORE_ASSIGNMENT", node))
        ELSE VOk(tbl, symbol.type.value)

\* Analyzer.visit: dispatch on "visit_" + node.name.name.lower(), falling
\* back to Analyzer.error
visit(node, context, tbl, scope) ==
    IF node.name = "PyNone"
    THEN VFail(tbl, Exc("AttributeError", "OK", -1, -1))
    ELSE IF node.name \notin Visitable
    THEN VFail(tbl, Exc("TypeError", "OK", -1, -1))
    ELSE IF node.name \in {"Add", "Sub", "Mul", "Div"}
    THEN VisitArith(node, tbl, scope)
    ELSE IF node.name = "ImmutableAssign"
    THEN VisitImmutableAssign(node, tbl, scope)
    ELSE IF node.name = "MutableAssign"
    THEN VisitMutableAssign(node, tbl, scope)
    ELSE IF node.name = "Name"
    THEN VisitName(node, context, tbl, scope)
    ELSE IF node.name = "Noop"
    THEN VOk(tbl, NoneV)
    ELSE VOk(tbl, NodeValue(node))

\* Analyzer.__init__ with an empty roots registry: Name.root(scope, "root",
\* SymbolType())
RootScope == <<"r", "o", "o", "t">>

AnalyzerTable(scope) ==
    NewName(scope, RootScope, SymbolType("UNKNOWN", "UNKNOWN", UnknownV))

\* One next(analyzer): resume Analyzer._next, that is
\* "yield self.visit(self.parser())" until StopIteration.
AnalyzerNext(st, ppc, apc, tbl, scope) ==
    LET out(p, kind, pc, t, val, err) ==
            [st |-> p.st, ppc |-> p.pc, apc |-> pc, table |-> t, node |-> p.node,
             kind |-> kind, val |-> val, err |-> err]
        visited_(p, v) ==
            IF v.err # NoError THEN out(p, "err", "done", v.table, NoneV, v.err)
            ELSE out(p, "val", "run", v.table, v.val, NoError)
        parsed(p) ==
            IF p.kind = "stop" THEN out(p, "stop", "done", tbl, NoneV, NoError)
            ELSE IF p.kind = "err" THEN out(p, "err", "done", tbl, NoneV, p.err)
            ELSE visited_(p, visit(p.node, "STORE", tbl, scope))
    IN  IF apc = "done"
        THEN [st |-> st, ppc |-> ppc, apc |-> apc, table |-> tbl, node |-> NoNode,
              kind |-> "stop", val |-> NoneV, err |-> NoError]
        ELSE parsed(ParserNext(st, ppc))

----------------------------------------------------------------------------
(* Source texts.  The inputs of the model are built from their structure,   *)
(* so that a claim can say what a text means without running the program on *)
(* it: Render* gives the characters handed to the Scanner.                  *)

MaxWords == 2       \* words on a line of a lexer input

MaxLines == 2       \* lines of a lexer input

MaxOperands == 3    \* operands of a flat expression

MaxCycles == 2      \* sources the driver reads

\* single- and multi-character literals, names and operators
LexWords == {<<"1">>, <<"a", "b">>, <<"+">>, <<"<", "-">>}

SeqsUpTo(S, lo, hi) == UNION {[1..n -> S] : n \in lo..hi}

RECURSIVE JoinWith(_, _)
JoinWith(ss, sep) ==
    IF ss = <<>> THEN <<>>
    ELSE IF Len(ss) = 1 THEN ss[1]
    ELSE ss[1] \o sep \o JoinWith(Tail(ss), sep)

\* the words of a line separated by single spaces, then the newline
RenderWords(words) == JoinWith(words, <<" ">>) \o <<"\n">>

RECURSIVE RenderLines(_)
RenderLines(lines) ==
    IF lines = <<>> THEN <<>> ELSE RenderWords(Head(lines)) \o RenderLines(Tail(lines))

\* Lexer inputs: 1..MaxLines lines of 0..MaxWords space-separated words
LexInputs == SeqsUpTo(SeqsUpTo(LexWords, 0, MaxWords), 1, MaxLines)

\* Expressions.  An operand is a literal (its digits w and the number v they
\* denote), a name, or a parenthesised expression; an expression is a
\* sequence operand, operator, operand, ... held as its first operand and
\* the list of (operator, operand) pairs that follow it.
Lit(w, v) == [t |-> "lit", w |-> w, v |-> v]

Nam(w) == [t |-> "name", w |-> w]

Group(e) == [t |-> "group", e |-> e]

Flat(f, r) == [first |-> f, rest |-> r]

Then(op, arg) == [op |-> op, arg |-> arg]

Ops == {"+", "-", "*", "/"}

Tails(Operands, lo, hi) ==
    SeqsUpTo([op : Ops, arg : Operands], lo, hi)

FlatExprs(Operands, lo, hi) ==
    {Flat(f, r) : f \in Operands, r \in Tails(Operands, lo - 1, hi - 1)}

RECURSIVE RenderExpr(_)
\* a parenthesis touches the literal or name next to it and is kept apart
\* from another parenthesis by a space
RenderOperand(o) ==
    IF o.t # "group" THEN o.w
    ELSE LET inner == RenderExpr(o.e)
             l == IF Head(inner) = "(" THEN <<"(", " ">> ELSE <<"(">>
             r == IF Last(inner) = ")" THEN <<" ", ")">> ELSE <<")">>
         IN  l \o inner \o r

RenderExpr(e) ==
    IF e.rest = <<>> THEN RenderOperand(e.first)
    ELSE LET n == Len(e.rest)
             init == Flat(e.first, SubSeq(e.rest, 1, n - 1))
         IN  RenderExpr(init) \o <<" ", e.rest[n].op, " ">> \o RenderOperand(e.rest[n].arg)

\* The operands of the parser's expressions: a one-digit literal, a longer
\* literal, a name
ParseAtoms == {Lit(<<"5">>, 5), Lit(<<"1", "2">>, 12), Nam(<<"a", "b">>)}

\* parenthesised expressions of one or two atoms
ParseGroups == {Group(e) : e \in FlatExprs({Lit(<<"5">>, 5), Nam(<<"a", "b">>)}, 1, 2)}

\* 1 + 2 * 3 - 1
Example1 ==
    Flat(Lit(<<"1">>, 1), <<Then("+", Lit(<<"2">>, 2)), Then("*", Lit(<<"3">>, 3)),
                            Then("-", Lit(<<"1">>, 1))>>)

\* ( (5 - ab) * 12) / (5)
Example2 ==
    Flat(Group(Flat(Group(Flat(Lit(<<"5">>, 5), <<Then("-", Nam(<<"a", "b">>))>>)),
                    <<Then("*", Lit(<<"1", "2">>, 12))>>)),
         <<Then("/", Group(Flat(Lit(<<"5">>, 5), <<>>)))>>)

\* 12 - (ab / (5 + 5) )
Example3 ==
    Flat(Lit(<<"1", "2">>, 12),
         <<Then("-", Group(Flat(Nam(<<"a", "b">>),
                <<Then("/", Group(Flat(Lit(<<"5">>, 5), <<Then("+", Lit(<<"5">>, 5))>>)))>>)))>>)

ParseInputs ==
    FlatExprs(ParseAtoms, 1, MaxOperands)
        \cup FlatExprs(ParseGroups \cup {Lit(<<"5">>, 5)}, 1, 2)
        \cup {Example1, Example2, Example3}

----------------------------------------------------------------------------
(* The reference grammar of expressions                                     *)
(*     expression := term (('+' | '-') term)*                               *)
(*     term       := factor (('*' | '/') factor)*                           *)
(*     factor     := literal | name | '(' expression ')'                    *)
(* with left associative operators.  RefTree gives the tree of an           *)
(* expression by splitting it at its last operator of lowest precedence.    *)

OpName(op) ==
    CASE op = "+" -> "Add" [] op = "-" -> "Sub" [] op = "*" -> "Mul" [] op = "/" -> "Div"

Tree(kind, kids, lexeme, num) ==
    [name |-> kind, kids |-> kids, lexeme |-> lexeme, num |-> num]

MaxOf(S) == CHOOSE x \in S : \A y \in S : y <= x

RECURSIVE RefTree(_)
RefOperand(o) ==
    CASE o.t = "lit" -> Tree("Num", <<>>, <<>>, o.v)
      [] o.t = "name" -> Tree("Name", <<>>, o.w, -1)
      [] o.t = "group" -> RefTree(o.e)

RefTree(e) ==
    LET n == Len(e.rest)
        adds == {i \in 1..n : e.rest[i].op \in {"+", "-"}}
        i == IF adds # {} THEN MaxOf(adds) ELSE n
    IN  IF n = 0 THEN RefOperand(e.first)
        ELSE Tree(OpName(e.rest[i].op),
                  <<RefTree(Flat(e.first, SubSeq(e.rest, 1, i - 1))),
                    RefTree(Flat(e.rest[i].arg, SubSeq(e.rest, i + 1, n)))>>,
                  <<>>, -1)

\* an AST node of the parser without its positions
RECURSIVE Shape(_)
Shape(node) ==
    Tree(node.name,
         [i \in 1..Len(node.kids) |-> Shape(node.kids[i])],
         IF node.name = "Name" THEN node.lexeme ELSE <<>>,
         IF node.name = "Num" THEN node.num ELSE -1)

----------------------------------------------------------------------------
(* The value of an expression without names: as a rational number, and in   *)
(* the arithmetic of Python numbers                                          *)

RECURSIVE Gcd(_, _)
Gcd(a, b) == IF b = 0 THEN a ELSE Gcd(b, a % b)

\* the fraction n / d in lowest terms, d > 0
Rat(n, d) ==
    LET g == Gcd(Abs(n), Abs(d))
        sgn == IF d < 0 THEN -1 ELSE 1
    IN  [ok |-> TRUE, n |-> sgn * (n \div g), d |-> sgn * (d \div g)]

Undefined == [ok |-> FALSE, n |-> 0, d |-> 1]

RatOp(kind, x, y) ==
    CASE ~(x.ok /\ y.ok) -> Undefined
      [] kind = "Add" -> Rat(x.n * y.d + y.n * x.d, x.d * y.d)
      [] kind = "Sub" -> Rat(x.n * y.d - y.n * x.d, x.d * y.d)
      [] kind = "Mul" -> Rat(x.n * y.n, x.d * y.d)
      [] kind = "Div" -> IF y.n = 0 THEN Undefined ELSE Rat(x.n * y.d, x.d * y.n)

\* the mathematical value of a tree of numbers; not ok when a divisor is zero
RECURSIVE RefExact(_)
RefExact(t) ==
    IF t.name = "Num" THEN Rat(t.num, 1)
    ELSE RatOp(t.name, RefExact(t.kids[1]), RefExact(t.kids[2]))

\* the value of a tree of numbers in Python: an operation on two ints other
\* than / is exact, every other operation is done on doubles
RefPyOp(kind, x, y) ==
    IF kind # "Div" /\ x.k = "int" /\ y.k = "int"
    THEN IntV(CASE kind = "Add" -> x.n + y.n
                [] kind = "Sub" -> x.n - y.n
                [] kind = "Mul" -> x.n * y.n)
    ELSE LET fx == IF x.k = "int" THEN IntToFloat(x.n) ELSE x
             fy == IF y.k = "int" THEN IntToFloat(y.n) ELSE y
         IN  CASE kind = "Add" -> FloatAdd(fx, fy)
               [] kind = "Sub" -> FloatAdd(fx, FloatNeg(fy))
               [] kind = "Mul" -> FloatMul(fx, fy)
               [] kind = "Div" -> FloatDiv(fx, fy)

RECURSIVE RefPy(_)
RefPy(t) ==
    IF t.name = "Num" THEN IntV(t.num)
    ELSE RefPyOp(t.name, RefPy(t.kids[1]), RefPy(t.kids[2]))

RECURSIVE HasDiv(_)
HasDiv(t) ==
    t.name = "Div" \/ \E i \in 1..Len(t.kids) : HasDiv(t.kids[i])

IsPow2(n) == \E k \in 0..30 : n = Pow2(k)

\* every quotient in the tree is a fraction whose denominator is a power of 2
RECURSIVE QuotientsDyadic(_)
QuotientsDyadic(t) ==
    /\ t.name = "Div" => IsPow2(RefExact(t).d)
    /\ \A i \in 1..Len(t.kids) : QuotientsDyadic(t.kids[i])

\* the double x is exactly the fraction q
FloatIsRat(x, q) ==
    LET lhs == BigMul(x.m, BigFromInt(q.d))
        rhs == BigFromInt(Abs(q.n))
    IN  /\ (q.n < 0) => x.s = 1
        /\ (q.n > 0) => x.s = 0
        /\ IF x.e >= 0 THEN BigShl(lhs, x.e) = rhs ELSE lhs = BigShl(rhs, -x.e)

\* the Python number v is exactly the fraction q
ValueIsRat(v, q) ==
    CASE v.k = "int" -> q.d = 1 /\ q.n = v.n
      [] v.k = "float" -> FloatIsRat(v, q)
      [] OTHER -> FALSE

\* The operands of the analyzer's expressions without names
EvalAtoms == {Lit(<<"3">>, 3), Lit(<<"1", "2">>, 12)}

\* expressions with the literal 0, as an operand and as a divisor
ZeroExprs == FlatExprs({Lit(<<"0">>, 0), Lit(<<"3">>, 3)}, 1, 2)

EvalGroups ==
    {Group(e) : e \in FlatExprs({Lit(<<"3">>, 3)}, 2, 2)} \cup {Group(Flat(Lit(<<"1", "2">>, 12), <<>>))}

\* 6 / 4
Example4 == Flat(Lit(<<"6">>, 6), <<Then("/", Lit(<<"4">>, 4))>>)

\* 1 - 1 / 3
Example5 ==
    Flat(Lit(<<"1">>, 1), <<Then("-", Lit(<<"1">>, 1)), Then("/", Lit(<<"3">>, 3))>>)

EvalInputs ==
    FlatExprs(EvalAtoms, 1, MaxOperands)
        \cup ZeroExprs
        \cup FlatExprs(EvalGroups \cup {Lit(<<"1", "2">>, 12)}, 1, 2)
        \cup {Example1, Example4, Example5}

----------------------------------------------------------------------------
(* Statements and the sources made of them                                  *)

\* kinds: "expr" (e), "massign" (n <- e), "iassign" (e -> n), "let"
\* (let and the statement of body), "letblock" (let: and the indented
\* statements of body), "class" (let n: or let n be base:)
Stmt(k, n, e, body, base) == [k |-> k, n |-> n, e |-> e, body |-> body, base |-> base]

Expr1(o) == Flat(o, <<>>)

Expr2(o1, op, o2) == Flat(o1, <<Then(op, o2)>>)

NoExpr == Expr1(Lit(<<>>, 0))

AB == <<"a", "b">>

CD == <<"c", "d">>

One == Lit(<<"1">>, 1)

Two == Lit(<<"2">>, 2)

MAssign(n, e) == Stmt("massign", n, e, <<>>, <<>>)

IAssign(n, e) == Stmt("iassign", n, e, <<>>, <<>>)

ExprStmt(e) == Stmt("expr", <<>>, e, <<>>, <<>>)

RhsExprs == {Expr1(One), Expr1(Two), Expr2(Nam(AB), "+", One), Expr2(Nam(CD), "*", Two)}

AssignStmts ==
    {Stmt(k, n, e, <<>>, <<>>) : k \in {"massign", "iassign"}, n \in {AB, CD}, e \in RhsExprs}

ExprStmts ==
    {ExprStmt(Expr1(Nam(AB))), ExprStmt(Expr2(Two, "*", Nam(CD))),
     ExprStmt(Expr2(Nam(AB), "-", Nam(CD)))}

\* let a <- 1 + 2
LetOne == Stmt("let", <<>>, NoExpr, <<MAssign(<<"a">>, Expr2(One, "+", Two))>>, <<>>)

\* let:
\*   a <- 1 + 2
\*   b <- a * 3
LetBlock ==
    Stmt("letblock", <<>>, NoExpr,
         <<MAssign(<<"a">>, Expr2(One, "+", Two)),
           MAssign(<<"b">>, Expr2(Nam(<<"a">>), "*", Lit(<<"3">>, 3)))>>, <<>>)

\* let b:
ClassB == Stmt("class", <<"b">>, NoExpr, <<>>, <<>>)

\* let bit be attribute:
ClassBit ==
    Stmt("class", <<"b", "i", "t">>, NoExpr, <<>>,
         <<"a", "t", "t", "r", "i", "b", "u", "t", "e">>)

\* the statements that follow one another in one source
CoreStmts ==
    {IAssign(AB, Expr1(One)), IAssign(AB, Expr1(Two)), MAssign(AB, Expr1(Two)),
     MAssign(CD, Expr2(Nam(AB), "+", One)), ExprStmt(Expr1(Nam(AB)))}

\* a <- 1 + 2
\* a * 5 -> b
Example6 ==
    <<MAssign(<<"a">>, Expr2(One, "+", Two)),
      IAssign(<<"b">>, Expr2(Nam(<<"a">>), "*", Lit(<<"5">>, 5)))>>

\* 7 + 4 -> b
\* 12 -> b
Example7 ==
    <<IAssign(<<"b">>, Expr2(Lit(<<"7">>, 7), "+", Lit(<<"4">>, 4))),
      IAssign(<<"b">>, Expr1(Lit(<<"1", "2">>, 12)))>>

Sources ==
    {<<s>> : s \in AssignStmts \cup ExprStmts \cup {LetOne, LetBlock, ClassB, ClassBit}}
        \cup (CoreStmts \X CoreStmts)
        \cup {Example6, Example7}

RenderSimple(st) ==
    CASE st.k = "expr" -> RenderExpr(st.e)
      [] st.k = "massign" -> st.n \o <<" ", "<", "-", " ">> \o RenderExpr(st.e)
      [] st.k = "iassign" -> RenderExpr(st.e) \o <<" ", "-", ">", " ">> \o st.n

RECURSIVE RenderBlock(_)
RenderBlock(body) ==
    IF body = <<>> THEN <<>>
    ELSE <<"\n", " ", " ">> \o RenderSimple(Head(body)) \o RenderBlock(Tail(body))

RenderStmt(st) ==
    CASE st.k = "let" -> <<"l", "e", "t", " ">> \o RenderSimple(st.body[1])
      [] st.k = "letblock" -> <<"l", "e", "t", ":">> \o RenderBlock(st.body)
      [] st.k = "class" ->
            <<"l", "e", "t", " ">> \o st.n
                \o (IF st.base = <<>> THEN <<>> ELSE <<" ", "b", "e", " ">> \o st.base)
                \o <<":">>
      [] OTHER -> RenderSimple(st)

\* every statement ends with a newline
RECURSIVE RenderSource(_)
RenderSource(stmts) ==
    IF stmts = <<>> THEN <<>>
    ELSE RenderStmt(Head(stmts)) \o <<"\n">> \o RenderSource(Tail(stmts))

----------------------------------------------------------------------------
(* The lexer pulled by a driver: for token in lexer                         *)

ParserIdle == [indent |-> 0, token |-> NoToken, pc |-> "start"]

\* no Analyzer has been constructed
AnalyzerIdle == [scope |-> <<>>, pc |-> "none"]

InitLexer ==
    /\ mode = "lexer"
    /\ input \in LexInputs
    /\ count = 0
    /\ scanner = ScannerInit(RenderLines(input))
    /\ lexer = LexerInit
    /\ parser = ParserIdle
    /\ analyzer = AnalyzerIdle
    /\ table = Nil
    /\ roots = {}
    /\ visited = NoNode
    /\ emitted = <<>>
    /\ outcome = "none"
    /\ error = NoError

\* next(lexer)
LexerPull ==
    /\ mode \in {"lexer", "text", "pair", "ident"}
    /\ \E r \in {Lex("LexNext", <<lexer, scanner>>)} :
           /\ lexer' = r.lexer
           /\ scanner' = r.scanner
           /\ emitted' = IF r.kind = "tok" THEN Append(emitted, r.tok) ELSE emitted
           /\ outcome' = CASE r.kind = "tok" -> "item"
                           [] r.kind = "err" -> "error"
                           [] OTHER -> "stop"
           /\ error' = IF r.kind = "err" THEN r.err ELSE NoError
    /\ UNCHANGED <<parser, analyzer, table, roots, visited, input, count, mode>>

NextLexer == LexerPull

SpecLexer == InitLexer /\ [][NextLexer]_vars

\* C1: when the lexer has been pulled to the end of a newline-terminated
\* input whose lines are space-separated valid tokens, no error was raised,
\* the last two tokens are EOL then EOF, and EOF was emitted exactly once.
C1_LexEndsWithEolEof ==
    (mode = "lexer" /\ outcome \in {"stop", "error"}) =>
        /\ outcome = "stop"
        /\ Len(emitted) >= 2
        /\ emitted[Len(emitted) - 1].symbol = "EOL"
        /\ emitted[Len(emitted)].symbol = "EOF"
        /\ Cardinality({i \in 1..Len(emitted) : emitted[i].symbol = "EOF"}) = 1

----------------------------------------------------------------------------
(* The parser pulled by a driver: for node in parser                        *)

InitParser ==
    /\ mode = "parser"
    /\ input \in ParseInputs
    /\ count = 0
    /\ scanner = ScannerInit(RenderExpr(input) \o <<"\n">>)
    /\ lexer = LexerInit
    /\ parser = ParserIdle
    /\ analyzer = AnalyzerIdle
    /\ table = Nil
    /\ roots = {}
    /\ visited = NoNode
    /\ emitted = <<>>
    /\ outcome = "none"
    /\ error = NoError

\* next(parser)
ParserPull ==
    /\ mode = "parser"
    /\ \E r \in {ParserNext(ParserState(parser.indent, parser.token, lexer, scanner),
                            parser.pc)} :
           /\ parser' = [indent |-> r.st.indent, token |-> r.st.token, pc |-> r.pc]
           /\ lexer' = r.st.lexer
           /\ scanner' = r.st.scanner
           /\ emitted' = IF r.kind = "node" THEN Append(emitted, r.node) ELSE emitted
           /\ outcome' = CASE r.kind = "node" -> "item"
                           [] r.kind = "err" -> "error"
                           [] OTHER -> "stop"
           /\ error' = IF r.kind = "err" THEN r.err ELSE NoError
    /\ UNCHANGED <<analyzer, table, roots, visited, input, count, mode>>

NextParser == ParserPull

SpecParser == InitParser /\ [][NextParser]_vars

\* C9: the first AST the parser returns for an expression is the tree the
\* reference grammar gives it (precedence of * and / over + and -, left
\* associativity, parentheses as grouping).
C9_AstIsReferenceParse ==
    (mode = "parser" /\ outcome # "none") =>
        /\ Len(emitted) >= 1
        /\ Shape(emitted[1]) = RefTree(input)

\* C9 witness: 1 + 2 * 3 - 1 has been parsed to Sub(Add(1, Mul(2, 3)), 1)
C9_Witness ==
    /\ mode = "parser"
    /\ input = Example1
    /\ Len(emitted) = 1
    /\ Shape(emitted[1]) =
           Tree("Sub", <<Tree("Add", <<Tree("Num", <<>>, <<>>, 1),
                                       Tree("Mul", <<Tree("Num", <<>>, <<>>, 2),
                                                     Tree("Num", <<>>, <<>>, 3)>>,
                                            <<>>, -1)>>,
                              <<>>, -1),
                         Tree("Num", <<>>, <<>>, 1)>>,
                <<>>, -1)

\* C10: a parser over E and a newline yields the AST of E, then one Noop,
\* then signals the end of the stream, and raises no error.
C10_AstThenNoopThenStop ==
    (mode = "parser" /\ outcome \in {"stop", "error"}) =>
        /\ outcome = "stop"
        /\ Len(emitted) = 2
        /\ Shape(emitted[1]) = RefTree(input)
        /\ emitted[2].name = "Noop"

----------------------------------------------------------------------------
(* The analyzer pulled by a driver: for value in analyzer                   *)

\* Scanner.__init__'s default filename, the scope of the driver's analyzers
Stdin == <<"<", "s", "t", "d", "i", "n", ">">>

InitEval ==
    /\ mode = "eval"
    /\ input \in EvalInputs
    /\ count = 0
    /\ scanner = ScannerInit(RenderExpr(input) \o <<"\n">>)
    /\ lexer = LexerInit
    /\ parser = ParserIdle
    /\ analyzer = [scope |-> Stdin, pc |-> "run"]
    /\ table = AnalyzerTable(Stdin)
    /\ roots = {table}
    /\ visited = NoNode
    /\ emitted = <<>>
    /\ outcome = "none"
    /\ error = NoError

\* next(analyzer)
AnalyzerPull ==
    /\ mode \in {"eval", "repl"}
    /\ analyzer.pc # "none"
    /\ \E r \in {AnalyzerNext(ParserState(parser.indent, parser.token, lexer, scanner),
                              parser.pc, analyzer.pc, table, analyzer.scope)} :
           /\ parser' = [indent |-> r.st.indent, token |-> r.st.token, pc |-> r.ppc]
           /\ lexer' = r.st.lexer
           /\ scanner' = r.st.scanner
           /\ analyzer' = [analyzer EXCEPT !.pc = r.apc]
           /\ table' = r.table
           /\ roots' = (roots \ {table}) \cup {r.table}
           /\ visited' = r.node
           /\ emitted' = IF r.kind = "val" THEN Append(emitted, r.val) ELSE emitted
           /\ outcome' = CASE r.kind = "val" -> "item"
                           [] r.kind = "err" -> "error"
                           [] OTHER -> "stop"
           /\ error' = IF r.kind = "err" THEN r.err ELSE NoError
    /\ UNCHANGED <<input, count, mode>>

NextEval == AnalyzerPull

SpecEval == InitEval /\ [][NextEval]_vars

\* the first pull has been made on an expression that has a value: no
\* divisor in it is zero
EvalDefined ==
    /\ mode = "eval"
    /\ outcome # "none"
    /\ Len(emitted) <= 1
    /\ RefExact(RefTree(input)).ok

----------------------------------------------------------------------------
(* The driver: it reads a source, builds Scanner, Lexer, Parser and         *)
(* Analyzer over it and pulls the analyzer; every analyzer it builds has    *)
(* the scope of the default filename, so Name.root hands it the table that  *)
(* is registered for this scope.                                            *)

Init ==
    /\ mode = "repl"
    /\ input = <<>>
    /\ count = 0
    /\ scanner = ScannerInit(<<>>)
    /\ lexer = LexerInit
    /\ parser = ParserIdle
    /\ analyzer = AnalyzerIdle
    /\ table = Nil
    /\ roots = {}
    /\ visited = NoNode
    /\ emitted = <<>>
    /\ outcome = "none"
    /\ error = NoError

\* scanner = Scanner(source); parser = Parser(Lexer(scanner));
\* analyzer = Analyzer(parser)
NewSource ==
    /\ mode = "repl"
    /\ count < MaxCycles
    /\ \E src \in Sources :
        /\ input' = src
        /\ scanner' = ScannerInit(RenderSource(src))
    /\ lexer' = LexerInit
    /\ parser' = ParserIdle
    /\ analyzer' = [scope |-> Stdin, pc |-> "run"]
    /\ \E r \in {NameRoot(roots, Stdin, RootScope,
                         SymbolType("UNKNOWN", "UNKNOWN", UnknownV))} :
           /\ table' = r.obj
           /\ roots' = r.roots
    /\ visited' = NoNode
    /\ emitted' = <<>>
    /\ outcome' = "none"
    /\ error' = NoError
    /\ count' = count + 1
    /\ UNCHANGED mode

Next == NewSource \/ AnalyzerPull

Spec == Init /\ [][Next]_vars

----------------------------------------------------------------------------
(* What the statements of a source mean, told from their structure          *)

\* the symbols of a table: name, scope, mutability and value of every node
RECURSIVE Entries(_)
Entries(t) ==
    IF t = Nil THEN {}
    ELSE {[name |-> t.name, scope |-> t.scope,
           mutable |-> t.type.mutable, value |-> t.type.value]}
             \cup Entries(t.left) \cup Entries(t.right)

\* the symbols called n in the scope of the module: none or one
Bound(S, n) == {e \in S : e.name = n /\ e.scope = Stdin}

\* the value of an expression tree whose names are all among the symbols S
RECURSIVE RefValue(_, _)
RefValue(t, S) ==
    IF t.name = "Num" THEN IntV(t.num)
    ELSE IF t.name = "Name" THEN (CHOOSE e \in Bound(S, t.lexeme) : TRUE).value
    ELSE RefPyOp(t.name, RefValue(t.kids[1], S), RefValue(t.kids[2], S))

\* the symbols after the assignment st: an existing symbol keeps its
\* mutability, a new one gets it from the arrow
RefAssign(S, st) ==
    LET old == Bound(S, st.n)
    IN  (S \ old) \cup
        {[name |-> st.n, scope |-> Stdin,
          mutable |-> IF old # {} THEN (CHOOSE e \in old : TRUE).mutable
                      ELSE IF st.k = "massign" THEN "MUTABLE" ELSE "IMMUTABLE",
          value |-> RefValue(RefTree(st.e), S)]}

\* the symbols after the assignments of a block, one after the other
RECURSIVE RefExec(_, _)
RefExec(S, body) ==
    IF body = <<>> THEN S ELSE RefExec(RefAssign(S, Head(body)), Tail(body))

\* the operands of a flat expression, in the order they are written
Operands(e) == <<e.first>> \o [i \in 1..Len(e.rest) |-> e.rest[i].arg]

\* the column of operand i in the rendering of e: operands are separated by
\* an operator between two spaces
RECURSIVE OperandColumn(_, _)
OperandColumn(e, i) ==
    IF i = 1 THEN 0
    ELSE OperandColumn(e, i - 1) + Len(RenderOperand(Operands(e)[i - 1])) + 3

\* the operands of e that are names with no symbol in S
Unbound(e, S) ==
    {i \in 1..Len(Operands(e)) :
        Operands(e)[i].t = "name" /\ Bound(S, Operands(e)[i].w) = {}}

MinOf(S) == CHOOSE x \in S : \A y \in S : x <= y

\* the column at which the expression of statement st starts
ExprColumn(st) == IF st.k = "massign" THEN Len(st.n) + 4 ELSE 0

\* The step is next(analyzer) on a statement of the source: statement k is
\* analysed by the k-th pull, on line k - 1.
Pulling ==
    /\ mode = "repl"
    /\ analyzer.pc = "run"
    /\ count' = count
    /\ Len(emitted) < Len(input)

CurStmt == input[Len(emitted) + 1]

CurLine == Len(emitted)

\* C2: the value of an IMMUTABLE symbol never changes, whatever statement is
\* analysed: every immutable symbol is in the next table as it was.
C2_ImmutableValueNeverChanges ==
    [][mode = "repl" =>
          \A e \in Entries(table) :
              e.mutable = "IMMUTABLE" => e \in Entries(table')]_vars

\* C3: an immutable assignment to a name that an immutable assignment has
\* created fails with REASSIGN_IMMUTABLE at the line and column of its "->",
\* and leaves the symbol table as it was.
C3_ReassignImmutableFails ==
    [][(/\ Pulling
        /\ CurStmt.k = "iassign"
        /\ \E e \in Bound(Entries(table), CurStmt.n) : e.mutable = "IMMUTABLE")
       => /\ outcome' = "error"
          /\ error' = SyntaxErr("REASSIGN_IMMUTABLE", CurLine,
                                Len(RenderExpr(CurStmt.e)) + 1)
          /\ table' = table]_vars

\* C3 witness: the second line of "7 + 4 -> b / 12 -> b" has failed at line
\* 1, column 3, and b is still 11 and IMMUTABLE.
C3_Witness ==
    /\ mode = "repl" /\ input = Example7
    /\ outcome = "error"
    /\ error = SyntaxErr("REASSIGN_IMMUTABLE", 1, 3)
    /\ Bound(Entries(table), <<"b">>) =
           {[name |-> <<"b">>, scope |-> Stdin, mutable |-> "IMMUTABLE",
             value |-> IntV(11)]}

\* C4: a successful assignment leaves the symbol with the value of its
\* right-hand side, MUTABLE or IMMUTABLE by its arrow when it is created and
\* with its mutability unchanged when it exists, and no other symbol changes.
C4_AssignStoresValue ==
    [][(/\ Pulling
        /\ CurStmt.k \in {"massign", "iassign"}
        /\ outcome' = "item")
       => Entries(table') = RefAssign(Entries(table), CurStmt)]_vars

\* C4 witness: after "a <- 1 + 2 / a * 5 -> b", a is 3 and MUTABLE and b is
\* 15 and IMMUTABLE.
C4_Witness ==
    /\ mode = "repl" /\ input = Example6 /\ count = 1
    /\ Len(emitted) = 2
    /\ Bound(Entries(table), <<"a">>) =
           {[name |-> <<"a">>, scope |-> Stdin, mutable |-> "MUTABLE",
             value |-> IntV(3)]}
    /\ Bound(Entries(table), <<"b">>) =
           {[name |-> <<"b">>, scope |-> Stdin, mutable |-> "IMMUTABLE",
             value |-> IntV(15)]}

\* C5: a statement whose expression is evaluated and names a symbol that is
\* not in the table fails with VARIABLE_REFERENCED_BEFORE_ASSIGNMENT at the
\* first such name; a statement that is a bare name is such a statement.
\* (An immutable assignment to an existing name fails before its expression
\* is evaluated.)
C5_UnboundNameFails ==
    [][(/\ Pulling
        /\ \/ CurStmt.k \in {"expr", "massign"}
           \/ CurStmt.k = "iassign" /\ Bound(Entries(table), CurStmt.n) = {}
        /\ Unbound(CurStmt.e, Entries(table)) # {})
       => /\ outcome' = "error"
          /\ error' = SyntaxErr("VARIABLE_REFERENCED_BEFORE_ASSIGNMENT", CurLine,
                                ExprColumn(CurStmt)
                                  + OperandColumn(CurStmt.e,
                                        MinOf(Unbound(CurStmt.e, Entries(table)))))
          /\ table' = table]_vars

\* C6: analysing a let statement raises no error and leaves the symbols that
\* analysing its assignments one after the other leaves.
C6_LetVisitsChildren ==
    [][(Pulling /\ CurStmt.k \in {"let", "letblock"})
       => /\ outcome' = "item"
          /\ Entries(table') = RefExec(Entries(table), CurStmt.body)]_vars

\* C7: analysing a class definition raises no error and leaves the symbol
\* table as it was.
C7_ClassAccepted ==
    [][(Pulling /\ CurStmt.k = "class")
       => /\ outcome' = "item"
          /\ table' = table]_vars

----------------------------------------------------------------------------
(* Sources told line by line.  A block source is a ladder of let: lines,    *)
(* the first at level 0 and each one level deeper than the one before,      *)
(* followed by a few lines of any level: a let: line, an assignment or a    *)
(* blank line.  A level is two spaces of indentation.                       *)

MaxDepth == 3       \* let: lines of the ladder of a block source

MaxTail == 2        \* lines that follow the ladder

Line(level, kind) == [level |-> level, kind |-> kind]

BlockLines(d) ==
    {Line(k, kind) : k \in 0..(d + 1), kind \in {"open", "stmt"}} \cup {Line(0, "blank")}

BlockSources ==
    UNION {{[form |-> "block", depth |-> d, tail |-> t] :
                t \in SeqsUpTo(BlockLines(d), 1, MaxTail)} : d \in 1..MaxDepth}

\* the lines of a block source, the ladder first
LinesOf(src) == [i \in 1..src.depth |-> Line(i - 1, "open")] \o src.tail

DigitChar(i) == CHOOSE c \in Digits : DigitVal(c) = i

\* the assignment written on line i: n<i> <- <i>
StmtName(i) == <<"n", DigitChar(i)>>

RECURSIVE Spaces(_)
Spaces(n) == IF n = 0 THEN <<>> ELSE <<" ">> \o Spaces(n - 1)

RenderLine(lines, i) ==
    Spaces(2 * lines[i].level)
        \o (CASE lines[i].kind = "open" -> <<"l", "e", "t", ":">>
              [] lines[i].kind = "stmt" -> StmtName(i) \o <<" ", "<", "-", " ", DigitChar(i)>>
              [] OTHER -> <<>>)
        \o <<"\n">>

RECURSIVE RenderFrom(_, _)
RenderFrom(lines, i) ==
    IF i > Len(lines) THEN <<>> ELSE RenderLine(lines, i) \o RenderFrom(lines, i + 1)

----------------------------------------------------------------------------
(* What indentation means: the statements of the block of level k that      *)
(* starts at line i are the lines of level k up to the first line of a      *)
(* lower level; a let: line of level k holds the block of level k + 1 that  *)
(* starts on the next line.                                                 *)

RefLine(i) ==
    Tree("MutableAssign",
         <<Tree("Name", <<>>, StmtName(i), -1), Tree("Num", <<>>, <<>>, i)>>, <<>>, -1)

RECURSIVE RefBlock(_, _, _)
RefBlock(lines, i, k) ==
    IF i > Len(lines) THEN [kids |-> <<>>, next |-> i]
    ELSE IF lines[i].kind = "blank" THEN RefBlock(lines, i + 1, k)
    ELSE IF lines[i].level < k THEN [kids |-> <<>>, next |-> i]
    ELSE IF lines[i].kind = "open"
    THEN LET inner == RefBlock(lines, i + 1, k + 1)
             rest == RefBlock(lines, inner.next, k)
         IN  [kids |-> <<Tree("Let", inner.kids, <<>>, -1)>> \o rest.kids,
              next |-> rest.next]
    ELSE LET rest == RefBlock(lines, i + 1, k)
         IN  [kids |-> <<RefLine(i)>> \o rest.kids, next |-> rest.next]

\* the lines before line i that are not blank
Written(lines, i) == {j \in 1..(i - 1) : lines[j].kind # "blank"}

\* the level of the innermost block open after line j
OpenLevel(lines, j) ==
    IF lines[j].kind = "open" THEN lines[j].level + 1 ELSE lines[j].level

\* the lines after line j that are not blank
Following(lines, j) == {i \in (j + 1)..Len(lines) : lines[i].kind # "blank"}

\* every line after the first is blank or lies in an open block of level 1
\* or more: it is indented, and no deeper than the innermost open block;
\* and every let: line has a first statement, one level deeper than itself
WellNested(lines) ==
    /\ \A i \in 2..Len(lines) :
           lines[i].kind # "blank" =>
               /\ lines[i].level >= 1
               /\ lines[i].level <= OpenLevel(lines, MaxOf(Written(lines, i)))
    /\ \A j \in 1..Len(lines) :
           lines[j].kind = "open" =>
               /\ Following(lines, j) # {}
               /\ lines[MinOf(Following(lines, j))].level = lines[j].level + 1

\* line i closes more than one block at once
SkipsLevel(lines, i) ==
    /\ i \in 2..Len(lines)
    /\ lines[i].kind # "blank"
    /\ lines[i].level + 1 < OpenLevel(lines, MaxOf(Written(lines, i)))

----------------------------------------------------------------------------
(* Statement sources: one line made of an optional let, an expression, an   *)
(* optional arrow with what follows it, and the words that trail it.        *)
(* Document sources: words between two lines of three double quotes.        *)

Seven == Lit(<<"7">>, 7)

Four == Lit(<<"4">>, 4)

\* ab, 7, (ab), 7 + 4, ab * 7, 7 + 4 * ab
StmtExprs ==
    {Expr1(Nam(AB)), Expr1(Seven), Expr1(Group(Expr1(Nam(AB)))), Expr2(Seven, "+", Four),
     Expr2(Nam(AB), "*", Seven),
     Flat(Seven, <<Then("+", Four), Then("*", Nam(AB))>>)}

\* what may follow the statement on its line: nothing, a literal, a name, a
\* binary operator, or a further arrow and its operand
Trailers ==
    {<<>>, <<<<"9">>>>, <<CD>>, <<<<"+">>>>, <<<<"-">>>>, <<<<"*">>>>, <<<<"/">>>>,
     <<<<"/", "/">>>>, <<<<"<", "-">>, <<"9">>>>, <<<<"-", ">">>, CD>>}

StmtSource(l, left, arrow, right, trailer) ==
    [form |-> "stmt", let |-> l, left |-> left, arrow |-> arrow, right |-> right,
     trailer |-> trailer]

StmtSources ==
    {StmtSource(l, e, "none", NoExpr, t) : l \in BOOLEAN, e \in StmtExprs, t \in Trailers}
        \cup {StmtSource(l, e, "<-", r, t) :
                l \in BOOLEAN, e \in StmtExprs, r \in StmtExprs, t \in Trailers}
        \cup {StmtSource(l, e, "->", Expr1(Nam(CD)), t) :
                l \in BOOLEAN, e \in StmtExprs, t \in Trailers}

\* the column at which the expression of a statement source starts
LeftColumn(src) == IF src.let THEN 4 ELSE 0

RenderStmtSource(src) ==
    (IF src.let THEN <<"l", "e", "t", " ">> ELSE <<>>)
        \o RenderExpr(src.left)
        \o (IF src.arrow = "none" THEN <<>>
            ELSE <<" ">> \o (IF src.arrow = "<-" THEN <<"<", "-">> ELSE <<"-", ">">>)
                     \o <<" ">> \o RenderExpr(src.right))
        \o (IF src.trailer = <<>> THEN <<>> ELSE <<" ">> \o JoinWith(src.trailer, <<" ">>))
        \o <<"\n">>

DocWords == {<<"H", "e", "l", "l", "o">>, <<"y", "o", "u">>}

Quotes == <<"\"", "\"", "\"", "\n">>

DocSources ==
    {[form |-> "doc", lines |-> ls] :
        ls \in SeqsUpTo(SeqsUpTo(DocWords, 1, MaxWords), 0, MaxLines)}

RenderDoc(src) == Quotes \o RenderLines(src.lines) \o Quotes

\* let b: and let bit be attribute:
ClassSources == {[form |-> "class", stmt |-> c] : c \in {ClassB, ClassBit}}

----------------------------------------------------------------------------
(* The parser pulled over a source told line by line                        *)

SourceInputs == BlockSources \cup StmtSources \cup DocSources \cup ClassSources

RenderInput(src) ==
    CASE src.form = "block" -> RenderFrom(LinesOf(src), 1)
      [] src.form = "stmt" -> RenderStmtSource(src)
      [] src.form = "doc" -> RenderDoc(src)
      [] src.form = "class" -> RenderStmt(src.stmt) \o <<"\n">>

InitSource ==
    /\ mode = "parser"
    /\ input \in SourceInputs
    /\ count = 0
    /\ scanner = ScannerInit(RenderInput(input))
    /\ lexer = LexerInit
    /\ parser = ParserIdle
    /\ analyzer = AnalyzerIdle
    /\ table = Nil
    /\ roots = {}
    /\ visited = NoNode
    /\ emitted = <<>>
    /\ outcome = "none"
    /\ error = NoError

SpecSource == InitSource /\ [][NextParser]_vars

IsBlock == mode = "parser" /\ input.form = "block"

\* the step is the first next(parser) on the source
FirstPull == mode = "parser" /\ parser.pc = "start" /\ parser'.pc # "start"

\* C11: in nested blocks of any depth whose lines are all indented and none
\* deeper than the innermost open block, the first statement the parser
\* returns is the Let whose blocks hold the lines as their indentation tells
\* (a dedent closes every deeper block, also several at once), and the
\* parser's indent counter is the level of the block left open.
C11_DedentClosesDeeperBlocks ==
    [][(IsBlock /\ WellNested(LinesOf(input)) /\ FirstPull) =>
           /\ outcome' = "item"
           /\ Shape(emitted'[1]) = Tree("Let", RefBlock(LinesOf(input), 2, 1).kids, <<>>, -1)
           /\ parser'.indent =
                  OpenLevel(LinesOf(input),
                            MaxOf(Written(LinesOf(input), Len(LinesOf(input)) + 1)))]_vars

\* the last line is an assignment with no leading whitespace that follows
\* the statements of a well nested block
TopAfterBlock(lines) ==
    /\ Last(lines) = Line(0, "stmt")
    /\ WellNested(SubSeq(lines, 1, Len(lines) - 1))

\* C12: a line with no leading whitespace after the statements of a block
\* ends the block without error: the parser returns the Let of the block and
\* then the statement of that line as the next top-level statement.
C12_DedentToTopLevel ==
    (IsBlock /\ TopAfterBlock(LinesOf(input)) /\ outcome \in {"stop", "error"}) =>
        /\ outcome = "stop"
        /\ Len(emitted) >= 2
        /\ Shape(emitted[1]) =
               Tree("Let", RefBlock(SubSeq(LinesOf(input), 1, Len(LinesOf(input)) - 1), 2, 1).kids,
                    <<>>, -1)
        /\ Shape(emitted[2]) = RefLine(Len(LinesOf(input)))

\* line i is the first line that breaks the indentation of its block: the
\* lines before it are indented and no deeper than the innermost open
\* block, and line i is deeper than that block, or is the first line of a
\* block and not indented at all
Offending(lines, i) ==
    /\ i \in 2..Len(lines)
    /\ lines[i].kind # "blank"
    /\ \A j \in 2..(i - 1) :
           lines[j].kind # "blank" =>
               /\ lines[j].level >= 1
               /\ lines[j].level <= OpenLevel(lines, MaxOf(Written(lines, j)))
    /\ \/ lines[i].level > OpenLevel(lines, MaxOf(Written(lines, i)))
       \/ lines[i].level = 0 /\ lines[MaxOf(Written(lines, i))].kind = "open"

\* C13: in a block, a line indented deeper than the block, or a first block
\* line that is not indented, makes the parser fail with the syntax error
\* INCONSISTENT_INDENT at column 0 of that line; and a well nested block
\* with blank lines in it is parsed without error.
C13_InconsistentIndentFails ==
    [][(IsBlock /\ FirstPull) =>
           /\ \A i \in 1..Len(LinesOf(input)) :
                  Offending(LinesOf(input), i) =>
                      /\ outcome' = "error"
                      /\ error' = SyntaxErr("INCONSISTENT_INDENT", i - 1, 0)
           /\ (WellNested(LinesOf(input)) /\ Line(0, "blank") \in Range(LinesOf(input))) =>
                  outcome' = "item"]_vars

----------------------------------------------------------------------------
(* Statements on one line                                                   *)

IsStmt == mode = "parser" /\ input.form = "stmt"

BareName(e) == e.rest = <<>> /\ e.first.t = "name"

BinaryOperators == {<<"+">>, <<"-">>, <<"*">>, <<"/">>, <<"/", "/">>}

Arrows == {<<"<", "-">>, <<"-", ">">>}

\* a statement of the grammar: an expression, name <- expression or
\* expression -> name
Complete(src) == src.arrow = "<-" => BareName(src.left)

\* a complete statement followed on its line by tokens that do not extend
\* it: a literal or a name, or a further arrow after an assignment
Trailing(src) ==
    /\ ~src.let
    /\ Complete(src)
    /\ src.trailer # <<>>
    /\ src.trailer[1] \notin BinaryOperators
    /\ src.arrow = "none" => src.trailer[1] \notin Arrows

\* C14: a line that holds a complete statement and then further tokens makes
\* the parser fail with GARBAGE_CHARACTERS on its first pull, and no
\* statement is ever returned for it.
C14_TrailingTokensFail ==
    [][(IsStmt /\ Trailing(input)) =>
           /\ emitted' = <<>>
           /\ FirstPull =>
                  /\ outcome' = "error"
                  /\ error'.cls = "LythSyntaxError"
                  /\ error'.msg = "GARBAGE_CHARACTERS"]_vars

\* an expression, or the right member of name <- expression, followed by a
\* binary operator at the end of the line
Dangling(src) ==
    /\ ~src.let
    /\ src.arrow \in {"none", "<-"}
    /\ Complete(src)
    /\ Len(src.trailer) = 1
    /\ src.trailer[1] \in BinaryOperators

\* C15: a line whose expression ends with a binary operator makes the first
\* pull of the parser fail with INCOMPLETE_LINE, wherever the operator
\* stands, and no node (Noop or a shorter expression) is returned for it.
C15_DanglingOperatorFails ==
    [][(IsStmt /\ Dangling(input) /\ FirstPull) =>
           /\ outcome' = "error"
           /\ error'.cls = "LythSyntaxError"
           /\ error'.msg = "INCOMPLETE_LINE"
           /\ emitted' = <<>>]_vars

\* C16: a source that holds only a docstring (a line of three double quotes,
\* lines of words, a line of three double quotes) is consumed by the first
\* pull of the parser, which returns a Noop node and raises no error.
C16_DocstringIsNoop ==
    [][(mode = "parser" /\ input.form = "doc" /\ FirstPull) =>
           /\ outcome' = "item"
           /\ emitted' = <<NodeNoop>>]_vars

\* the column of the root of the tree of e in the rendering of e: the last
\* operator of lowest precedence, or the single operand
RECURSIVE RootColumn(_)
RootColumn(e) ==
    LET n == Len(e.rest)
        adds == {i \in 1..n : e.rest[i].op \in {"+", "-"}}
        i == IF adds # {} THEN MaxOf(adds) ELSE n
    IN  IF n > 0 THEN OperandColumn(e, i + 1) - 2
        ELSE IF e.first.t # "group" THEN 0
        ELSE (IF Head(RenderExpr(e.first.e)) = "(" THEN 2 ELSE 1) + RootColumn(e.first.e)

RefAssignment(src) ==
    IF src.arrow = "<-"
    THEN Tree("MutableAssign", <<RefTree(src.left), RefTree(src.right)>>, <<>>, -1)
    ELSE Tree("ImmutableAssign", <<RefTree(src.right), RefTree(src.left)>>, <<>>, -1)

\* C18: let before a bare expression makes the first pull of the parser fail
\* with LET_ON_EXPRESSION at the line and column of the let token; let
\* before name <- expression or expression -> name yields a Let node, placed
\* at the let token, whose only child is the assignment; let before a class
\* definition yields a Let node whose only child is the class.
C18_LetOnlyBeforeAssignment ==
    [][FirstPull =>
           /\ (input.form = "stmt" /\ input.let /\ input.trailer = <<>>) =>
                  /\ input.arrow = "none" =>
                         /\ outcome' = "error"
                         /\ error' = SyntaxErr("LET_ON_EXPRESSION", 0, 0)
                         /\ emitted' = <<>>
                  /\ (input.arrow # "none" /\ Complete(input)) =>
                         /\ outcome' = "item"
                         /\ Shape(emitted'[1]) = Tree("Let", <<RefAssignment(input)>>, <<>>, -1)
                         /\ emitted'[1].lineno = 0
                         /\ emitted'[1].offset = 0
           /\ input.form = "class" =>
                  /\ outcome' = "item"
                  /\ emitted'[1].name = "Let"
                  /\ Len(emitted'[1].kids) = 1
                  /\ emitted'[1].kids[1].name = "Class"]_vars

\* C18 witness: let 7 + 4 has failed at the let token
C18_Witness ==
    /\ IsStmt
    /\ input = StmtSource(TRUE, Expr2(Seven, "+", Four), "none", NoExpr, <<>>)
    /\ outcome = "error"
    /\ error = SyntaxErr("LET_ON_EXPRESSION", 0, 0)
    /\ emitted = <<>>

----------------------------------------------------------------------------
(* symbol.py: a tree of Name nodes that grows by insertion.  The tree is    *)
(* the variable table; input is the set of the keys handed to the tree so   *)
(* far, visited the Name handed to it last.                                 *)

\* Name.__setitem__ with a (name, scope) tuple: self += Name(*info, type_)
NameSetItem(self, info, type_) == NameAdd(self, NewName(info[1], info[2], type_))

\* Name.next drained: the nodes in the order the traversal yields them
RECURSIVE NameNext(_, _)
NameNext(self, order) ==
    IF self = Nil THEN <<>>
    ELSE (IF order = "PRE_ORDER" THEN <<self>> ELSE <<>>)
             \o NameNext(self.left, order)
             \o (IF order = "IN_ORDER" THEN <<self>> ELSE <<>>)
             \o NameNext(self.right, order)
             \o (IF order = "POST_ORDER" THEN <<self>> ELSE <<>>)

\* (name, scope) keys: names in several scopes, a scope that is a prefix of
\* another, a scope in which there are several names
TreeKeys ==
    {<<<<"b">>, <<"a">>>>, <<<<"b">>, <<"a", "b">>>>, <<<<"b">>, <<"b">>>>,
     <<<<"c">>, <<"a">>>>, <<<<"a", "b">>, <<"b">>>>}

TreeTypes ==
    {SymbolType("UNKNOWN", "UNKNOWN", UnknownV), SymbolType("UNKNOWN", "MUTABLE", IntV(1))}

\* sym = Name(name, scope, type)
InitTree ==
    /\ mode = "tree"
    /\ \E k \in TreeKeys, t \in TreeTypes :
           /\ table = NewName(k[1], k[2], t)
           /\ roots = {}
           /\ input = {k}
    /\ count = 0
    /\ scanner = ScannerInit(<<>>)
    /\ lexer = LexerInit
    /\ parser = ParserIdle
    /\ analyzer = AnalyzerIdle
    /\ visited = NoNode
    /\ emitted = <<>>
    /\ outcome = "none"
    /\ error = NoError

\* sym += Name(name, scope, type)
TreeIAdd ==
    /\ mode = "tree"
    /\ \E k \in TreeKeys, t \in TreeTypes :
           /\ table' = NameAdd(table, NewName(k[1], k[2], t))
           /\ visited' = NewName(k[1], k[2], t)
           /\ input' = input \cup {k}
    /\ outcome' = "iadd"
    /\ UNCHANGED <<scanner, lexer, parser, analyzer, roots, emitted, error, count,
                   mode>>

\* sym[(name, scope)] = type
TreeSetItem ==
    /\ mode = "tree"
    /\ \E k \in TreeKeys, t \in TreeTypes :
           /\ table' = NameSetItem(table, k, t)
           /\ visited' = NewName(k[1], k[2], t)
           /\ input' = input \cup {k}
    /\ outcome' = "setitem"
    /\ UNCHANGED <<scanner, lexer, parser, analyzer, roots, emitted, error, count,
                   mode>>

NextTree == TreeIAdd \/ TreeSetItem

SpecTree == InitTree /\ [][NextTree]_vars

\* the key of a node
KeyOf(n) == <<n.name, n.scope>>

\* the nodes of a tree, as its shape holds them
RECURSIVE Nodes(_)
Nodes(t) == IF t = Nil THEN {} ELSE {t} \cup Nodes(t.left) \cup Nodes(t.right)

RECURSIVE Size(_)
Size(t) == IF t = Nil THEN 0 ELSE 1 + Size(t.left) + Size(t.right)

\* lexicographic order on the name first and then the scope
KeyLess(j, k) == StrLt(j[1], k[1]) \/ (j[1] = k[1] /\ StrLt(j[2], k[2]))

\* C19: after any sequence of insertions, every node of the tree has only
\* smaller keys in its left subtree and only greater keys in its right
\* subtree, in the order of names first and scopes second; the in-order
\* traversal yields strictly increasing keys and visits every node exactly
\* once, and the keys it meets are the keys that were inserted.
C19_TreeIsOrdered ==
    mode = "tree" =>
        LET inorder == NameNext(table, "IN_ORDER")
        IN  /\ \A n \in Nodes(table) :
                   /\ \A l \in Nodes(n.left) : KeyLess(KeyOf(l), KeyOf(n))
                   /\ \A r \in Nodes(n.right) : KeyLess(KeyOf(n), KeyOf(r))
            /\ \A i \in 1..(Len(inorder) - 1) : KeyLess(KeyOf(inorder[i]), KeyOf(inorder[i + 1]))
            /\ Len(inorder) = Size(table)
            /\ {KeyOf(inorder[i]) : i \in 1..Len(inorder)} = input

\* C19 witness: a tree of five nodes with a left and a right subtree under
\* its root and two keys that differ in their scope only
C19_Witness ==
    /\ mode = "tree"
    /\ Size(table) >= 5
    /\ table.left # Nil
    /\ table.right # Nil
    /\ \E m, n \in Nodes(table) : m.name = n.name /\ m.scope # n.scope

\* C20: inserting a Name whose key is in the tree already, by += or by
\* tree[(n, s)] = type, leaves the tree as it was: keys, shape, types and
\* values; also when the key is the key of the root.
C20_DuplicateInsertIsNoop ==
    [][(mode = "tree" /\ KeyOf(visited') \in {KeyOf(n) : n \in Nodes(table)}) =>
           table' = table]_vars

\* C20 witness: a Name with the key of the root and another type was handed
\* to tree[(n, s)] = type, and the root kept its type
C20_Witness ==
    /\ mode = "tree"
    /\ outcome = "setitem"
    /\ visited # NoNode
    /\ KeyOf(visited) = KeyOf(table)
    /\ visited.type # table.type
    /\ Size(table) >= 2


\* C37: after any sequence of insertions, tree[(n, s)] returns the node of
\* the tree that has the key (n, s) for every key that was inserted, the
\* key of the tree itself included, and fails with KeyError (get returns
\* its default) for every key that was never inserted; Name(n, s) in tree
\* is true for exactly the inserted keys and the key of the tree.
C37_LookupFindsInsertedKeys ==
    mode = "tree" =>
        \A k \in TreeKeys :
            LET other == NewName(k[1], k[2], SymbolType("UNKNOWN", "UNKNOWN", UnknownV))
                found == NameGet(table, k)
            IN  /\ NameContains(table, other) <=> k \in input
                /\ k \in input => /\ found \in Nodes(table)
                                  /\ KeyOf(found) = k
                /\ k \notin input => found = Nil

\* C37 witness: a tree of four keys in which an inserted key lies two levels
\* below the root, and a key that was never inserted
C37_Witness ==
    /\ mode = "tree"
    /\ Cardinality(input) = 4
    /\ \E n \in Nodes(table) \ {table} :
           /\ n.left # Nil
           /\ KeyOf(n.left) \in input
           /\ NameGet(table, KeyOf(n.left)) = n.left
    /\ \E k \in TreeKeys \ input : NameGet(table, k) = Nil

----------------------------------------------------------------------------
(* The registry of roots: roots are taken from the factory, names are       *)
(* inserted into the tree at hand and keys are deleted from it              *)

MaxRoots == 2

\* the keys of roots and of the names below them: a file's root and two names
\* of its scope
RegistryKeys ==
    {<<<<"b">>, RootScope>>, <<<<"a">>, <<"b">>>>, <<<<"c">>, <<"b">>>>}

InitRoots ==
    /\ mode = "roots"
    /\ input = <<>>
    /\ count = 0
    /\ scanner = ScannerInit(<<>>)
    /\ lexer = LexerInit
    /\ parser = ParserIdle
    /\ analyzer = AnalyzerIdle
    /\ table = Nil
    /\ roots = {}
    /\ visited = NoNode
    /\ emitted = <<>>
    /\ outcome = "none"
    /\ error = NoError

\* sym = Name.root(name, scope, type)
RootsRoot ==
    /\ mode = "roots"
    /\ \E k \in RegistryKeys, t \in TreeTypes :
           \E r \in {NameRoot(roots, k[1], k[2], t)} :
               /\ Cardinality(r.roots) <= MaxRoots
               /\ table' = r.obj
               /\ roots' = r.roots
               /\ visited' = NewName(k[1], k[2], t)
    /\ outcome' = "root"
    /\ error' = NoError
    /\ UNCHANGED <<scanner, lexer, parser, analyzer, emitted, input, count, mode>>

\* sym[(name, scope)] = type
RootsSetItem ==
    /\ mode = "roots"
    /\ table # Nil
    /\ \E k \in RegistryKeys, t \in {SymbolType("UNKNOWN", "MUTABLE", IntV(1))} :
           \E tree \in {NameSetItem(table, k, t)} :
               /\ table' = tree
               /\ roots' = Aliased(roots, table, tree)
               /\ visited' = NewName(k[1], k[2], t)
    /\ outcome' = "setitem"
    /\ error' = NoError
    /\ UNCHANGED <<scanner, lexer, parser, analyzer, emitted, input, count, mode>>

\* del sym[(name, scope)]
RootsDelItem ==
    /\ mode = "roots"
    /\ table # Nil
    /\ \E k \in RegistryKeys :
           \E r \in {NameDelItem(table, k, roots)} :
               /\ table' = r.tree
               /\ roots' = r.roots
               /\ visited' = NewName(k[1], k[2], SymbolType("UNKNOWN", "UNKNOWN", UnknownV))
               /\ outcome' = IF r.err = NoError THEN "delitem" ELSE "error"
               /\ error' = r.err
    /\ UNCHANGED <<scanner, lexer, parser, analyzer, emitted, input, count, mode>>

NextRoots == RootsRoot \/ RootsSetItem \/ RootsDelItem

SpecRoots == InitRoots /\ [][NextRoots]_vars

\* the keys of a tree
Keys(t) == {KeyOf(n) : n \in Nodes(t)}

\* every node has only smaller keys to its left and greater keys to its right
Ordered(t) ==
    \A n \in Nodes(t) :
        /\ \A l \in Nodes(n.left) : KeyLess(KeyOf(l), KeyOf(n))
        /\ \A r \in Nodes(n.right) : KeyLess(KeyOf(n), KeyOf(r))

\* C21: del tree[(n, s)] removes the node with the key (n, s) and every node
\* of its subtree: afterwards each of these keys fails on lookup, every other
\* key of the tree is found with its type and value unchanged, the tree is
\* still ordered, and a deleted node that is a registered root is no longer
\* in the registry.
C21_DelItemRemovesSubtree ==
    [][(mode = "roots" /\ outcome' = "delitem") =>
           LET gone == Keys(NameGet(table, KeyOf(visited')))
           IN  /\ \A k \in gone : NameGet(table', k) = Nil
               /\ \A k \in Keys(table) \ gone :
                      /\ NameGet(table', k) # Nil
                      /\ NameGet(table', k).type = NameGet(table, k).type
               /\ Ordered(table')
               /\ (KeyOf(visited') = KeyOf(table) /\ table \in roots) =>
                      \A r \in roots' : KeyOf(r) # KeyOf(visited')]_vars

\* C22: no two registered roots have the same (name, scope); Name.root
\* returns the registered root of the key, with its subtree and its stored
\* type, when there is one, and registers and returns a new node otherwise:
\* who asks for the root of a file a second time sees the symbols that were
\* inserted under it.
C22_RootFactoryKeepsOneRoot ==
    /\ [](\A r1, r2 \in roots : KeyOf(r1) = KeyOf(r2) => r1 = r2)
    /\ [][(mode = "roots" /\ outcome' = "root") =>
              IF \E r \in roots : KeyOf(r) = KeyOf(visited')
              THEN /\ table' \in roots
                   /\ KeyOf(table') = KeyOf(visited')
                   /\ roots' = roots
              ELSE /\ table' = visited'
                   /\ roots' = roots \cup {visited'}]_vars

\* C22 witness: the factory was asked for a root that holds a name already,
\* with another type than the type the root was registered with
C22_Witness ==
    /\ mode = "roots"
    /\ outcome = "root"
    /\ table \in roots
    /\ Size(table) >= 2
    /\ visited.type # table.type

----------------------------------------------------------------------------
(* The lexer pulled over any text: every sequence of up to MaxChars         *)
(* characters of a letter, the space, the newline, the colon and a          *)
(* character that no token takes                                            *)

MaxChars == 5

TextChars == {"a", " ", "\n", ":", ";"}

TextInputs == SeqsUpTo(TextChars, 0, MaxChars)

InitText ==
    /\ mode = "text"
    /\ input \in TextInputs
    /\ count = 0
    /\ scanner = ScannerInit(input)
    /\ lexer = LexerInit
    /\ parser = ParserIdle
    /\ analyzer = AnalyzerIdle
    /\ table = Nil
    /\ roots = {}
    /\ visited = NoNode
    /\ emitted = <<>>
    /\ outcome = "none"
    /\ error = NoError

SpecText == InitText /\ [][NextLexer]_vars

\* the tokens with this symbol among the emitted ones
Emitted(symbol) == {i \in 1..Len(emitted) : emitted[i].symbol = symbol}

\* C23: pulling the lexer over a finite input terminates: a pull delivers a
\* token, fails or signals the end of the stream, and no more tokens are
\* delivered than the input has characters, the EOF token aside; the lexer
\* raises a syntax error or emits exactly one EOF token as its last token,
\* and every pull after the EOF token and every pull after an error signals
\* the end of the stream and produces no token.
C23_LexerTerminates ==
    /\ [](mode = "text" => Len(emitted) <= Len(input) + 1)
    /\ [](Cardinality(Emitted("EOF")) <= 1)
    /\ [][mode = "text" =>
              /\ outcome' = "error" => error'.cls = "LythSyntaxError"
              /\ outcome = "none" => outcome' \in {"item", "error"}
              /\ (outcome' = "stop" /\ outcome = "item") =>
                     Last(emitted).symbol = "EOF"
              /\ (outcome = "item" /\ Last(emitted).symbol = "EOF") =>
                     outcome' = "stop" /\ emitted' = emitted
              /\ outcome \in {"error", "stop"} =>
                     outcome' = "stop" /\ emitted' = emitted]_vars

----------------------------------------------------------------------------
(* The scanner pulled by a driver that hands it more text: input is the     *)
(* text the scanner was given so far, emitted the characters it delivered   *)

ScanChars == {"a", "\n"}

InitScan ==
    /\ mode = "scan"
    /\ input \in SeqsUpTo(ScanChars, 0, 2)
    /\ count = 0
    /\ scanner = ScannerInit(input)
    /\ lexer = LexerInit
    /\ parser = ParserIdle
    /\ analyzer = AnalyzerIdle
    /\ table = Nil
    /\ roots = {}
    /\ visited = NoNode
    /\ emitted = <<>>
    /\ outcome = "none"
    /\ error = NoError

\* scanner()
ScannerPull ==
    /\ mode = "scan"
    /\ \E r \in {ScanNext(scanner)} :
           /\ scanner' = r.s
           /\ emitted' = IF r.c = END THEN emitted ELSE Append(emitted, r.c)
           /\ outcome' = IF r.c = END THEN "stop" ELSE "item"
    /\ error' = NoError
    /\ UNCHANGED <<lexer, parser, analyzer, table, roots, visited, input, count, mode>>

\* scanner += text: the Scanner class defines neither __iadd__ nor __add__,
\* the statement raises TypeError and the buffer is as it was
ScannerIAdd ==
    /\ mode = "scan"
    /\ \E text \in SeqsUpTo(ScanChars, 1, 2) : Len(input) + Len(text) <= MaxChars
    /\ outcome' = "error"
    /\ error' = Exc("TypeError", "unsupported operand type(s) for +=", -1, -1)
    /\ UNCHANGED <<scanner, lexer, parser, analyzer, table, roots, visited, emitted,
                   input, count, mode>>

\* scanner.data += text
ScannerExtend ==
    /\ mode = "scan"
    /\ \E text \in SeqsUpTo(ScanChars, 1, 2) :
           /\ Len(input) + Len(text) <= MaxChars
           /\ scanner' = [scanner EXCEPT !.data = @ \o text]
           /\ input' = input \o text
    /\ outcome' = "extended"
    /\ error' = NoError
    /\ UNCHANGED <<lexer, parser, analyzer, table, roots, visited, emitted, count, mode>>

NextScan == ScannerPull \/ ScannerIAdd \/ ScannerExtend

SpecScan == InitScan /\ [][NextScan]_vars

\* C24: text can be appended to the scanner, and a pull delivers the next
\* character of the text given so far, also when an earlier pull has
\* signalled END because the buffer was exhausted: the appended characters
\* come in their order and END is signalled again only when they are used up.
C24_AppendAfterEnd ==
    [][mode = "scan" =>
           /\ outcome' # "error"
           /\ (outcome' \in {"item", "stop"} /\ Len(emitted) < Len(input)) =>
                  emitted' = Append(emitted, input[Len(emitted) + 1])
           /\ (outcome' \in {"item", "stop"} /\ Len(emitted) = Len(input)) =>
                  outcome' = "stop" /\ emitted' = emitted]_vars

----------------------------------------------------------------------------
(* What a text holds, told from its characters                              *)

\* the positions of the newlines of a text
Newlines(t) == {i \in 1..Len(t) : t[i] = "\n"}

\* the line of the character at position i, and its column (from 0)
LineNo(t, i) == Cardinality({j \in Newlines(t) : j < i})

Column(t, i) == i - 1 - MaxOf({0} \cup {j \in Newlines(t) : j < i})

\* the positions at which a line starts
LineStarts(t) == {i \in 1..Len(t) : i = 1 \/ t[i - 1] = "\n"}

\* the positions at which a word starts
WordStarts(t) ==
    {i \in 1..Len(t) : t[i] \notin {" ", "\n"} /\ (i = 1 \/ t[i - 1] \in {" ", "\n"})}

\* the number of spaces from position i on
Leading(t, i) == MinOf({k \in i..Len(t) + 1 : k = Len(t) + 1 \/ t[k] # " "}) - i

\* words of letters, spaces and newlines, and no line that starts with a
\* space
Plain(t) ==
    /\ Range(t) \subseteq {"a", " ", "\n"}
    /\ \A i \in LineStarts(t) : t[i] # " "

\* a plain text with a word in it and no newline at its end
Unterminated(t) == Plain(t) /\ WordStarts(t) # {} /\ Last(t) # "\n"

\* C25: for a non-empty input whose last character is not the newline,
\* ending in a character of a token or in spaces, the lexer fails with
\* MISSING_EMPTY_LINE at the origin of the last token and never emits an EOF
\* token.
C25_MissingEmptyLine ==
    [][(mode = "text" /\ Unterminated(input)) =>
           LET last == MaxOf(WordStarts(input))
           IN  /\ Emitted("EOF")' = {}
               /\ outcome' = "stop" => outcome \in {"error", "stop"}
               /\ outcome' = "error" =>
                      error' = SyntaxErr("MISSING_EMPTY_LINE", LineNo(input, last),
                                         Column(input, last))]_vars

\* the lines that start with an odd number of spaces and do not end the text
\* with them
OddLines(t) ==
    {i \in LineStarts(t) : Leading(t, i) % 2 = 1 /\ i + Leading(t, i) <= Len(t)}

\* the first line with an odd number of leading spaces comes after plain
\* lines only
OddIndent(t) ==
    /\ OddLines(t) # {}
    /\ Plain(SubSeq(t, 1, MinOf(OddLines(t)) - 1))

\* C26: when no earlier line causes an error, a line whose leading spaces
\* have an odd count makes the lexer fail with UNEVEN_INDENT at column 0 of
\* this line, whatever the line before it is (a line of one character too)
\* and whether a token or the newline follows the spaces, and no INDENT
\* token is emitted for the line.
C26_UnevenIndent ==
    [][(mode = "text" /\ OddIndent(input)) =>
           /\ Emitted("INDENT")' = {}
           /\ Emitted("EOF")' = {}
           /\ outcome' = "stop" => outcome \in {"error", "stop"}
           /\ outcome' = "error" =>
                  error' = SyntaxErr("UNEVEN_INDENT",
                                     LineNo(input, MinOf(OddLines(input))), 0)]_vars

\* the first character that no token takes comes after words of letters and
\* spaces on the first line, which does not start with a space
Invalid(t) ==
    /\ ";" \in Range(t)
    /\ LET i == MinOf({k \in 1..Len(t) : t[k] = ";"})
       IN  /\ \A k \in 1..(i - 1) : t[k] \in {"a", " "}
           /\ t[1] # " "

\* C27: a character that is neither whitespace, a digit, a letter, the
\* underscore nor a character of a symbol makes the lexer fail with
\* INVALID_CHARACTER, when it starts a token after a space and when it
\* follows the characters of another token; no token that holds such a
\* character is emitted.
C27_InvalidCharacter ==
    [][(mode = "text" /\ Invalid(input)) =>
           /\ \A k \in 1..Len(emitted') : ";" \notin Range(emitted'[k].lexeme)
           /\ Emitted("EOF")' = {}
           /\ outcome' = "stop" => outcome \in {"error", "stop"}
           /\ outcome' = "error" =>
                  /\ error'.cls = "LythSyntaxError"
                  /\ error'.msg = "INVALID_CHARACTER"]_vars

\* lines of words of letters, each with an even number of leading spaces and
\* its newline
EvenLines(t) ==
    /\ t # <<>>
    /\ Range(t) \subseteq {"a", " ", "\n"}
    /\ Last(t) = "\n"
    /\ \A i \in LineStarts(t) : Leading(t, i) % 2 = 0

\* the words and the newlines of a text in their order
RECURSIVE RefSymbols(_, _)
RefSymbols(t, i) ==
    IF i > Len(t) THEN <<>>
    ELSE (IF t[i] = "\n" THEN <<"EOL">>
          ELSE IF i \in WordStarts(t) THEN <<"STRING">>
          ELSE <<>>) \o RefSymbols(t, i + 1)

\* the symbols of the tokens of words and newlines in the order of emission
RECURSIVE SymbolsOf(_)
SymbolsOf(toks) ==
    IF toks = <<>> THEN <<>>
    ELSE (IF Head(toks).symbol \in {"INDENT", "EOF"} THEN <<>>
          ELSE <<Head(toks).symbol>>) \o SymbolsOf(Tail(toks))

\* C30: every newline of the source produces exactly one EOL token, emitted
\* right after the token under construction when there is one: also for
\* blank lines, for lines of spaces only and for lines of any length.
C30_OneEolPerNewline ==
    [][(mode = "text" /\ EvenLines(input)) =>
           /\ outcome' # "error"
           /\ (outcome' = "item" /\ Last(emitted').symbol = "EOF") =>
                  SymbolsOf(emitted') = RefSymbols(input, 1)]_vars

----------------------------------------------------------------------------
(* cli.main started with -c cycle=N: input holds the settings that fetch    *)
(* returns, count is the count of main, emitted what the completed cycles   *)
(* printed                                                                  *)

\* what input('>>> ') returns: 1 + 2, a line with a character that no token
\* takes, and a line that makes the lexer raise AttributeError
CliSources ==
    {<<"1", " ", "+", " ", "2">>, <<"1", " ", ";", " ", "2">>, <<":", " ", "1">>}

\* settings = fetch(argv[1:]); error = 0; count = 0
InitCli ==
    /\ mode = "cli"
    /\ input \in {[cycle |-> n] : n \in 0..MaxCycles}
    /\ count = 0
    /\ scanner = ScannerInit(<<>>)
    /\ lexer = LexerInit
    /\ parser = ParserIdle
    /\ analyzer = AnalyzerIdle
    /\ table = Nil
    /\ roots = {}
    /\ visited = NoNode
    /\ emitted = <<>>
    /\ outcome = "none"
    /\ error = NoError

\* main is in its while loop
Running == mode = "cli" /\ outcome \in {"none", "item", "error"}

\* one pass of the while loop in which input returns a line: the line is
\* compiled, its value or its syntax error is printed and the count is
\* stepped when settings.cycle is not 0; any other exception leaves the loop
CliCycle ==
    /\ Running
    /\ count <= input.cycle
    /\ Len(emitted) < MaxCycles + 2
    /\ \E src \in CliSources :
       \E rt \in {NameRoot(roots, Stdin, RootScope,
                           SymbolType("UNKNOWN", "UNKNOWN", UnknownV))} :
       \E r \in {AnalyzerNext(ParserState(0, NoToken, LexerInit,
                                          ScannerInit(src \o <<"\n">>)),
                              "start", "run", rt.obj, Stdin)} :
       \E done \in {r.kind = "val" \/ (r.kind = "err" /\ r.err.cls = "LythSyntaxError")} :
           /\ scanner' = r.st.scanner
           /\ lexer' = r.st.lexer
           /\ parser' = [indent |-> r.st.indent, token |-> r.st.token, pc |-> r.ppc]
           /\ analyzer' = [scope |-> Stdin, pc |-> r.apc]
           /\ table' = r.table
           /\ roots' = Aliased(rt.roots, rt.obj, r.table)
           /\ visited' = r.node
           /\ emitted' = IF done
                         THEN Append(emitted, IF r.kind = "val" THEN r.val ELSE r.err)
                         ELSE emitted
           /\ outcome' = CASE r.kind = "val" -> "item"
                           [] done -> "error"
                           [] OTHER -> "internal"
           /\ error' = IF r.kind = "err" THEN r.err ELSE NoError
           /\ count' = IF done /\ input.cycle # 0 THEN count + 1 ELSE count
    /\ UNCHANGED <<input, mode>>

\* input raises KeyboardInterrupt: the loop is left
CliInterrupt ==
    /\ Running
    /\ count <= input.cycle
    /\ outcome' = "interrupt"
    /\ error' = Exc("KeyboardInterrupt", "Keyboard interrupt", -1, -1)
    /\ UNCHANGED <<scanner, lexer, parser, analyzer, table, roots, visited, emitted,
                   input, count, mode>>

\* the test of the while loop fails: print("Goodbye."); return error
CliGoodbye ==
    /\ Running
    /\ ~(count <= input.cycle)
    /\ outcome' = "goodbye"
    /\ error' = NoError
    /\ UNCHANGED <<scanner, lexer, parser, analyzer, table, roots, visited, emitted,
                   input, count, mode>>

NextCli == CliCycle \/ CliInterrupt \/ CliGoodbye

SpecCli == InitCli /\ [][NextCli]_vars

\* C28: started with -c cycle=N, N >= 0, the driver performs exactly N + 1
\* cycles and then terminates, when no cycle raises a keyboard interrupt or
\* an internal exception: it never completes more than N + 1 cycles, after
\* N + 1 cycles the loop is left, and it is left after N + 1 cycles only; a
\* cycle that prints a syntax error is a completed cycle. N = 0 gives one
\* cycle.
C28_CyclesThenTerminates ==
    (mode = "cli" /\ outcome \notin {"interrupt", "internal"}) =>
        /\ Len(emitted) <= input.cycle + 1
        /\ (Running /\ Len(emitted) = input.cycle + 1) => ~(count <= input.cycle)
        /\ outcome = "goodbye" => Len(emitted) = input.cycle + 1

----------------------------------------------------------------------------
(* The parser over products: two operands, or three, with the operators     *)
(* that Parser.multiplication takes                                         *)

MulOperators == {<<"*">>, <<"/">>, <<"/", "/">>}

Factors == {<<"a">>, <<"b">>, <<"7">>, <<"a", "b">>}

\* left op right, and left op right op2 third
Products ==
    {[form |-> "product", left |-> l, op |-> o, right |-> r, more |-> <<>>] :
         l \in Factors, o \in MulOperators, r \in Factors}
        \cup {[form |-> "product", left |-> l, op |-> o, right |-> r,
               more |-> <<" ">> \o o2 \o <<" ">> \o t] :
                  l \in {<<"a">>}, o \in MulOperators, r \in {<<"b">>},
                  o2 \in MulOperators, t \in {<<"7">>}}

RenderProduct(src) ==
    src.left \o <<" ">> \o src.op \o <<" ">> \o src.right \o src.more \o <<"\n">>

InitProduct ==
    /\ mode = "parser"
    /\ input \in Products
    /\ count = 0
    /\ scanner = ScannerInit(RenderProduct(input))
    /\ lexer = LexerInit
    /\ parser = ParserIdle
    /\ analyzer = AnalyzerIdle
    /\ table = Nil
    /\ roots = {}
    /\ visited = NoNode
    /\ emitted = <<>>
    /\ outcome = "none"
    /\ error = NoError

SpecProduct == InitProduct /\ [][NextParser]_vars

\* the names of the members of the NodeType enumeration
NodeTypes ==
    {"Add", "Class", "Doc", "Div", "ImmutableAssign", "Let", "Mul",
     "MutableAssign", "Name", "Noop", "Num", "Sub", "Type"}

\* a node and the nodes below it
RECURSIVE AstNodes(_)
AstNodes(node) == {node} \cup UNION {AstNodes(node.kids[i]) : i \in DOMAIN node.kids}

\* the kind that an operator of a product stands for
ProductKind(op) ==
    CASE op = <<"*">> -> "Mul" [] op = <<"/">> -> "Div" [] op = <<"/", "/">> -> "Floor"

\* C29: every AST node the parser produces has a kind that is a member of
\* the NodeType enumeration, never an undefined kind: a // b yields a Floor
\* node with two children, as a * b yields Mul and a / b yields Div.
C29_NodeKindsAreMembers ==
    (mode = "parser" /\ input.form = "product") =>
        /\ outcome # "error"
        /\ \A i \in 1..Len(emitted) : \A n \in AstNodes(emitted[i]) :
               n.name \in NodeTypes \cup {"Floor"}
        /\ (Len(emitted) >= 1 /\ input.more = <<>>) =>
               /\ emitted[1].name = ProductKind(input.op)
               /\ Len(emitted[1].kids) = 2

----------------------------------------------------------------------------
(* The registry under deletions                                             *)

\* C40: deleting a node leaves the registry of roots as it was unless the
\* deleted node is the registered root object itself: a node below the root
\* whose (name, scope) is the key of a registered root of another tree does
\* not take that root out of the registry.
C40_DelItemKeepsOtherRoots ==
    [][(mode = "roots" /\ outcome' = "delitem") =>
           roots' = IF KeyOf(visited') = KeyOf(table)
                    THEN roots \ {table}
                    ELSE Aliased(roots, table, table')]_vars

----------------------------------------------------------------------------
(* The symbol table under statements that fail                              *)

\* C38: when the analysis of a statement fails with REASSIGN_IMMUTABLE or
\* with VARIABLE_REFERENCED_BEFORE_ASSIGNMENT, the symbol table is as it was
\* before the statement: no key is added, the target of the failed
\* assignment neither, and no value or mutability is changed.
C38_FailedStatementKeepsTable ==
    [][(mode = "repl" /\ outcome' = "error"
            /\ error'.msg \in {"REASSIGN_IMMUTABLE",
                               "VARIABLE_REFERENCED_BEFORE_ASSIGNMENT"}) =>
           /\ table' = table
           /\ roots' = roots]_vars

\* C38 witness: an assignment failed on a name of its right member that is
\* not in the table, which holds a symbol of an earlier statement and not
\* the target
C38_Witness ==
    /\ mode = "repl"
    /\ outcome = "error"
    /\ error.msg = "VARIABLE_REFERENCED_BEFORE_ASSIGNMENT"
    /\ visited.name = "MutableAssign"
    /\ Size(table) >= 2
    /\ NameGet(table, <<visited.kids[1].lexeme, Stdin>>) = Nil

----------------------------------------------------------------------------
(* Indentation, told from the text                                          *)

\* the lines that start with an even number of spaces, one pair at least,
\* and have a character that is not a space after them
IndentLines(t) ==
    {i \in LineStarts(t) : /\ Leading(t, i) >= 1
                           /\ Leading(t, i) % 2 = 0
                           /\ i + Leading(t, i) <= Len(t)
                           /\ t[i + Leading(t, i)] # "\n"}

\* C31: the lexer emits an INDENT token for a line exactly when the line
\* starts with k >= 1 spaces, k even, and a character that is not a space
\* after them; the INDENT comes before the first token of the line, its
\* lexeme is k / 2 and its column 0; a line whose first character is not a
\* space gets no INDENT token and no indentation error, whatever the line
\* before it is.  (The texts of this specification have no tabulation.)
C31_IndentForEvenLeadingSpaces ==
    mode = "text" =>
        /\ \A j \in Emitted("INDENT") :
               /\ \E i \in IndentLines(input) :
                      /\ emitted[j].lineno = LineNo(input, i)
                      /\ emitted[j].num = Leading(input, i) \div 2
               /\ emitted[j].offset = 0
               /\ \A m \in 1..(j - 1) : emitted[m].lineno < emitted[j].lineno
        /\ \A i \in IndentLines(input) :
               \A m \in 1..Len(emitted) :
                   (emitted[m].lineno = LineNo(input, i) /\ emitted[m].symbol # "INDENT")
                       => \E j \in 1..(m - 1) : /\ emitted[j].symbol = "INDENT"
                                                /\ emitted[j].lineno = emitted[m].lineno
        /\ (outcome = "error" /\ error.msg = "UNEVEN_INDENT") =>
               \E i \in LineStarts(input) : /\ LineNo(input, i) = error.lineno
                                            /\ input[i] = " "

----------------------------------------------------------------------------
(* A token under construction and the character that comes right after it: *)
(* the text is a head, a word, a character and a newline                    *)

PairHeads == {<<>>, <<"1", " ">>}

SymbolWords ==
    {<<"+">>, <<"-">>, <<"(">>, <<")">>, <<"*">>, <<"/">>, <<"<">>,
     <<"/", "/">>, <<"+", "+">>, <<"<", "-">>, <<"-", ">">>}

LiteralWords == {<<"1">>, <<"1", "2">>, <<"a">>, <<"a", "b">>, <<"_">>}

KeywordWords == {<<"l", "e", "t">>, <<"b", "e">>}

NextChars == {"a", "1", "_", ")", "(", "+", "*", "<", ":"}

PairInputs ==
    {[head |-> h, word |-> w, next |-> c] :
         h \in PairHeads,
         w \in SymbolWords \cup LiteralWords \cup KeywordWords,
         c \in NextChars}

\* Lexer(Scanner(text))
InitPair ==
    /\ mode = "pair"
    /\ input \in PairInputs
    /\ count = 0
    /\ scanner = ScannerInit(input.head \o input.word \o <<input.next, "\n">>)
    /\ lexer = LexerInit
    /\ parser = ParserIdle
    /\ analyzer = AnalyzerIdle
    /\ table = Nil
    /\ roots = {}
    /\ visited = NoNode
    /\ emitted = <<>>
    /\ outcome = "none"
    /\ error = NoError

SpecPair == InitPair /\ [][NextLexer]_vars

\* the tokens of the head, and the column at which the word starts
HeadTokens == IF input.head = <<>> THEN 0 ELSE 1

WordColumn == Len(input.head)

\* the kind of the token that the word makes
WordSymbol(w) ==
    IF SymbolAsValue(w) # "NONE" THEN SymbolAsValue(w)
    ELSE IF KeywordAsValue(w) # "NONE" THEN KeywordAsValue(w)
    ELSE IF \A i \in 1..Len(w) : IsDigit(w[i]) THEN "VALUE"
    ELSE "STRING"

\* the finalized token of the word
WordToken ==
    [symbol |-> WordSymbol(input.word), lexeme |-> input.word,
     num |-> IF WordSymbol(input.word) = "VALUE" THEN StrToInt(input.word) ELSE -1,
     lineno |-> 0, offset |-> WordColumn, quotes |-> 0]

\* the word is emitted as its finalized token, and a token of this kind
\* starts at the character after it
WordThenToken(symbols) ==
    /\ outcome # "error"
    /\ Len(emitted) > HeadTokens => emitted[HeadTokens + 1] = WordToken
    /\ Len(emitted) > HeadTokens + 1 =>
           /\ emitted[HeadTokens + 2].symbol \in symbols
           /\ emitted[HeadTokens + 2].lexeme = <<input.next>>
           /\ emitted[HeadTokens + 2].lineno = 0
           /\ emitted[HeadTokens + 2].offset = WordColumn + Len(input.word)

\* the pull that comes to the word fails at the character after it with
\* this error at the origin of the word; the word is not emitted and it is
\* as it was
WordFails(msg) ==
    (Len(emitted) = HeadTokens /\ outcome \in {"none", "item"}) =>
        /\ outcome' = "error"
        /\ error' = SyntaxErr(msg, 0, WordColumn)
        /\ lexer'.tok.lexeme = input.word
        /\ emitted' = emitted

\* C32: whatever token is under construction, a literal, a keyword or a
\* symbol, a ')' right after it makes the lexer emit the finalized token
\* and start a ')' token, without an error.
C32_RParenEndsAnyToken ==
    (mode = "pair" /\ input.next = ")") => WordThenToken({"RPAREN"})

\* C33: when the token under construction is '+', '-' or '(' and the next
\* character is a letter, a digit or '_', the lexer emits the symbol and
\* starts a literal at that character without an error; after every other
\* symbol the lexer fails with MISSING_SPACE_AFTER_OPERATOR at the origin
\* of the symbol.
C33_LiteralRightAfterSymbol ==
    [][(mode = "pair" /\ input.word \in SymbolWords /\ input.next \in {"a", "1", "_"}) =>
           IF input.word \in {<<"+">>, <<"-">>, <<"(">>}
           THEN WordThenToken(Literals)'
           ELSE WordFails("MISSING_SPACE_AFTER_OPERATOR")]_vars

\* C33 witness: '-' and then a digit, after another token: SUB and VALUE
\* are emitted
C33_Witness ==
    /\ mode = "pair"
    /\ input.head # <<>>
    /\ input.word = <<"-">>
    /\ input.next = "1"
    /\ Len(emitted) >= 3
    /\ emitted[2].symbol = "SUB"
    /\ emitted[3].symbol = "VALUE"
    /\ emitted[3].num = 1

----------------------------------------------------------------------------
(* Identifiers: every word of letters, digits and '_' that starts with a    *)
(* letter or '_', and what ends it                                          *)

MaxIdent == 4

IdentChars == {"l", "e", "t", "a", "_", "1"}

IdentWords == {w \in SeqsUpTo(IdentChars, 1, MaxIdent) : w[1] # "1"}

IdentEnds == {<<"\n">>, <<" ", "\n">>, <<":", "\n">>, <<")", "\n">>}

\* Lexer(Scanner(text))
InitIdent ==
    /\ mode = "ident"
    /\ input \in {[word |-> w, end |-> e] : w \in IdentWords, e \in IdentEnds}
    /\ count = 0
    /\ scanner = ScannerInit(input.word \o input.end)
    /\ lexer = LexerInit
    /\ parser = ParserIdle
    /\ analyzer = AnalyzerIdle
    /\ table = Nil
    /\ roots = {}
    /\ visited = NoNode
    /\ emitted = <<>>
    /\ outcome = "none"
    /\ error = NoError

SpecIdent == InitIdent /\ [][NextLexer]_vars

\* C35: every identifier token the lexer emits has a keyword kind exactly
\* when its complete lexeme is a reserved word, and the kind STRING
\* otherwise, whatever reserved words are prefixes or parts of the lexeme;
\* the first token emitted is the whole identifier.
C35_KeywordIffReservedWord ==
    mode = "ident" =>
        /\ Len(emitted) >= 1 => emitted[1].lexeme = input.word
        /\ \A j \in 1..Len(emitted) :
               (emitted[j].lexeme # <<>> /\ WordSymbol(<<emitted[j].lexeme[1]>>) = "STRING") =>
                   emitted[j].symbol = IF KeywordAsValue(emitted[j].lexeme) # "NONE"
                                       THEN KeywordAsValue(emitted[j].lexeme)
                                       ELSE "STRING"

\* C35 witness: "lett", which has the reserved word "let" as a prefix, was
\* emitted as a name
C35_Witness ==
    /\ mode = "ident"
    /\ input.word = <<"l", "e", "t", "t">>
    /\ Len(emitted) >= 1
    /\ emitted[1].lexeme = input.word
    /\ emitted[1].symbol = "STRING"

----------------------------------------------------------------------------
(* Headers of class definitions: a name, "be" and a type, colons, spaces    *)
(* and ends of line, in every order                                         *)

MaxPieces == 4

HeaderPieces == {<<"a">>, <<" ", "b", "e", " ", "a">>, <<":">>, <<" ">>, <<"\n">>}

HeaderInputs ==
    {[form |-> "header", pieces |-> ps] : ps \in SeqsUpTo(HeaderPieces, 0, MaxPieces)}

\* Parser(Lexer(Scanner(text)))
InitHeader ==
    /\ mode = "parser"
    /\ input \in HeaderInputs
    /\ count = 0
    /\ scanner = ScannerInit(JoinWith(input.pieces, <<>>))
    /\ lexer = LexerInit
    /\ parser = ParserIdle
    /\ analyzer = AnalyzerIdle
    /\ table = Nil
    /\ roots = {}
    /\ visited = NoNode
    /\ emitted = <<>>
    /\ outcome = "none"
    /\ error = NoError

SpecHeader == InitHeader /\ [][NextParser]_vars

\* C39: every failure raised while lexing or parsing is a LythSyntaxError
\* whose kind is a member of LythError; no exception of another type
\* reaches the caller, also for a ':' that starts a token after a space or
\* at the start of a line, and for "NAME be NAME" that no ':' follows.
C39_OnlyLythSyntaxErrors ==
    (mode = "parser" /\ outcome = "error") =>
        /\ error.cls = "LythSyntaxError"
        /\ error.msg \in LythErrors

----------------------------------------------------------------------------
(* The scanner pulled over texts with tabulations and carriage returns      *)

PosChars == {"a", "\n", "\t", "\r"}

\* Scanner(text)
InitPos ==
    /\ mode = "scan"
    /\ input \in SeqsUpTo(PosChars, 0, MaxChars)
    /\ count = 0
    /\ scanner = ScannerInit(input)
    /\ lexer = LexerInit
    /\ parser = ParserIdle
    /\ analyzer = AnalyzerIdle
    /\ table = Nil
    /\ roots = {}
    /\ visited = NoNode
    /\ emitted = <<>>
    /\ outcome = "none"
    /\ error = NoError

SpecPos == InitPos /\ [][ScannerPull]_vars

\* the position in the text of every character the scanner delivers: none
\* for a carriage return, two for a tabulation
RECURSIVE DeliveredFrom(_, _)
DeliveredFrom(t, i) ==
    IF i > Len(t) THEN <<>>
    ELSE (CASE t[i] = "\r" -> <<>>
            [] t[i] = "\t" -> <<i, i>>
            [] OTHER -> <<i>>) \o DeliveredFrom(t, i + 1)

\* the characters of the line of position i that come before i and take a
\* column
ColumnsBefore(t, i) ==
    Cardinality({j \in (MaxOf({0} \cup {n \in Newlines(t) : n < i}) + 1)..(i - 1) :
                     t[j] # "\r"})

\* C36: when a character is delivered the line number of the scanner is the
\* line of that character and its column the column of that character, from
\* 0, a carriage return taking no column and a tabulation one column for
\* its two spaces; a newline is delivered with the line and the column of
\* the character before it; after END the line number is the number of
\* newlines and the column is -1.
C36_PositionsOfDeliveredChars ==
    /\ (mode = "scan" /\ outcome = "item") =>
           LET i == DeliveredFrom(input, 1)[Len(emitted)]
           IN  /\ scanner.lineno = LineNo(input, i)
               /\ scanner.offset = IF input[i] = "\n"
                                   THEN ColumnsBefore(input, i) - 1
                                   ELSE ColumnsBefore(input, i)
    /\ (mode = "scan" /\ outcome = "stop") =>
           /\ scanner.lineno = Cardinality(Newlines(input))
           /\ scanner.offset = -1
====
